---- MODULE Spec2Model ----
(***************************************************************************)
(* Overlay engine of the OpenAPI-to-MCP bridge: OverlayApplier.apply and   *)
(* OverlayApplier.applyAction (src/src/overlay-applier.ts), with the two   *)
(* libraries they call, jsonpath-plus (JSONPath) and deepmerge.            *)
(* Further sections model the callers and neighbours of the engine:        *)
(* validateOverlay, getProcessedOpenApi, mapOpenApiToMcpTools,             *)
(* applySecurity, executeApiCall and the configuration module.             *)
(*                                                                         *)
(* A JSON value is a tagged record: t is the shape ("obj", "arr", "str",   *)
(* "num", "bool", "null", "undef"), and the content is the field o of an   *)
(* object (a function from keys to values), the field a of an array (a     *)
(* sequence of values), the field s, n or b of a scalar.                   *)
(* Array indices are the 0-based JavaScript ones everywhere but inside     *)
(* Sequences operators.                                                    *)
(***************************************************************************)
EXTENDS Integers, Sequences, FiniteSets, TLC

\* ------------------------------------------------------------ JSON values

Obj(f) == [t |-> "obj", o |-> f]
Arr(s) == [t |-> "arr", a |-> s]
Str(s) == [t |-> "str", s |-> s]
Num(n) == [t |-> "num", n |-> n]
Bool(b) == [t |-> "bool", b |-> b]
Null == [t |-> "null"]
Undefined == [t |-> "undef"]

EmptyFn == [k \in {} |-> Undefined]

\* Array.isArray(x)
IsArray(x) == x.t = "arr"

\* typeof x === 'object' && x !== null
IsObjectLike(x) == x.t \in {"obj", "arr"}

\* JavaScript truthiness
Truthy(x) ==
  /\ x.t \notin { "undef", "null" }
  /\ x.t = "bool" => x.b
  /\ x.t = "num" => x.n # 0
  /\ x.t = "str" => x.s # ""

\* Object.keys of the documents of this model list the keys in this order
\* (the insertion order of the documents below; a key a merge adds is
\* listed where this order puts it).
KeyOrder ==
  << "openapi", "info", "title", "version", "paths", "/p", "get", "patch",
     "summary", "parameters", "name", "in", "list", "cfg", "a", "b", "c", "l",
     "o", "x", "y", "0", "1", "2", "$", "servers", "url" >>

RECURSIVE KeysIn(_, _)
KeysIn(order, keys) ==
  IF order = <<>> THEN <<>>
  ELSE IF Head(order) \in keys
       THEN <<Head(order)>> \o KeysIn(Tail(order), keys)
       ELSE KeysIn(Tail(order), keys)

\* A path element: a key of an object or an index of an array.
Key(k) == [e |-> "key", k |-> k]
Idx(n) == [e |-> "idx", i |-> n]

\* val[m] for one path element m (undefined when there is no such member)
Member(val, m) ==
  IF val.t = "obj" /\ m.e = "key" /\ m.k \in DOMAIN val.o THEN val.o[m.k]
  ELSE IF val.t = "arr" /\ m.e = "idx" /\ m.i >= 0 /\ m.i < Len(val.a)
       THEN val.a[m.i + 1]
       ELSE Undefined

RECURSIVE GetPath(_, _)
GetPath(val, path) ==
  IF path = <<>> THEN val
  ELSE GetPath(Member(val, Head(path)), Tail(path))

\* parent[key] = value on the container at the end of `path`
RECURSIVE SetPath(_, _, _)
SetPath(val, path, new) ==
  IF path = <<>> THEN new
  ELSE LET m == Head(path) IN
    IF val.t = "obj" /\ m.e = "key" THEN
      Obj([k \in DOMAIN val.o \cup {m.k} |->
             IF k = m.k
             THEN SetPath(Member(val, m), Tail(path), new)
             ELSE val.o[k]])
    ELSE IF val.t = "arr" /\ m.e = "idx" /\ m.i >= 0 /\ m.i < Len(val.a) THEN
      Arr([val.a EXCEPT ![m.i + 1] = SetPath(@, Tail(path), new)])
    ELSE val

\* the children of a container, as path elements, in Object.keys / index order
Children(val) ==
  IF val.t = "arr" THEN [n \in 1..Len(val.a) |-> Idx(n - 1)]
  ELSE IF val.t = "obj"
       THEN LET ks == KeysIn(KeyOrder, DOMAIN val.o)
            IN [n \in 1..Len(ks) |-> Key(ks[n])]
       ELSE <<>>

\* ------------------------------------------------- JSONPath (jsonpath-plus)

(***************************************************************************)
(* A path expression is the sequence of its segments after the root `$`.   *)
(* A segment, tagged by k, is one of                                          *)
(*   Dot(n)        .n                     Br(n)     ['n']                  *)
(*   BrDq(n)       ["n"]                  At(i)     [i]                    *)
(*   Wild          [*]                    BadFilter [?(]  (does not parse) *)
(*   FName(n)      [?(@.name=='n')]                                        *)
(*   FNameIn(n, m) [?(@.name=='n' && @.in=='m')]                           *)
(* Names hold no quote, bracket or dot other than the ones shown.          *)
(***************************************************************************)
Dot(n) == [k |-> "dot", n |-> n]
Br(n) == [k |-> "br", n |-> n]
BrDq(n) == [k |-> "brdq", n |-> n]
At(i) == [k |-> "idx", i |-> i]
Wild == [k |-> "wild"]
FName(n) == [k |-> "fname", n |-> n]
FNameIn(n, m) == [k |-> "fnamein", n |-> n, m |-> m]
BadFilter == [k |-> "bad"]

MemberKinds == {"dot", "br", "brdq"}
FilterKinds == {"fname", "fnamein"}
\* the segments whose text starts with `[` and ends with `]`
BracketKinds == {"br", "brdq", "idx", "wild", "fname", "fnamein", "bad"}

\* the filter script evaluated on one child: @.name=='n' [&& @.in=='m']
FilterHolds(s, child) ==
  /\ child.t = "obj"
  /\ "name" \in DOMAIN child.o
  /\ child.o["name"] = Str(s.n)
  /\ s.k = "fnamein" => ("in" \in DOMAIN child.o /\ child.o["in"] = Str(s.m))

\* @.name on null is a TypeError, which jsonpath-plus rethrows
FilterThrows(s, child) == child.t \in {"null", "undef"}

RECURSIVE Trace(_, _, _)
RECURSIVE TraceKids(_, _, _, _)
\* the paths of the nodes `segs` selects below the node at `path`, in the
\* order jsonpath-plus visits them
Trace(doc, segs, path) ==
  IF segs = <<>> THEN << path >>
  ELSE LET s == Head(segs)
           val == GetPath(doc, path)
       IN CASE s.k \in MemberKinds ->
                 IF val.t = "obj" /\ s.n \in DOMAIN val.o
                 THEN Trace(doc, Tail(segs), Append(path, Key(s.n)))
                 ELSE <<>>
            [] s.k = "idx" ->
                 IF val.t = "arr" /\ s.i >= 0 /\ s.i < Len(val.a)
                 THEN Trace(doc, Tail(segs), Append(path, Idx(s.i)))
                 ELSE <<>>
            [] OTHER -> TraceKids(doc, segs, path, Children(val))

TraceKids(doc, segs, path, kids) ==
  IF kids = <<>> THEN <<>>
  ELSE LET s == Head(segs)
           child == Member(GetPath(doc, path), Head(kids))
           here == IF s.k = "wild" \/ (s.k \in FilterKinds /\ FilterHolds(s, child))
                   THEN Trace(doc, Tail(segs), Append(path, Head(kids)))
                   ELSE <<>>
       IN here \o TraceKids(doc, segs, path, Tail(kids))

RECURSIVE TraceThrows(_, _, _)
\* whether evaluating `segs` below the node at `path` throws
TraceThrows(doc, segs, path) ==
  IF segs = <<>> THEN FALSE
  ELSE LET s == Head(segs)
           val == GetPath(doc, path)
           kids == Children(val)
       IN CASE s.k \in MemberKinds ->
                 /\ val.t = "obj" /\ s.n \in DOMAIN val.o
                 /\ TraceThrows(doc, Tail(segs), Append(path, Key(s.n)))
            [] s.k = "idx" ->
                 /\ val.t = "arr" /\ s.i >= 0 /\ s.i < Len(val.a)
                 /\ TraceThrows(doc, Tail(segs), Append(path, Idx(s.i)))
            [] s.k = "bad" -> kids # <<>>
            [] s.k = "wild" ->
                 \E n \in 1..Len(kids) :
                    TraceThrows(doc, Tail(segs), Append(path, kids[n]))
            [] OTHER ->
                 \E n \in 1..Len(kids) :
                    \/ FilterThrows(s, Member(val, kids[n]))
                    \/ /\ FilterHolds(s, Member(val, kids[n]))
                       /\ TraceThrows(doc, Tail(segs), Append(path, kids[n]))

\* JSONPath({ path: expr, json: doc, resultType: 'all' }): the matches, each
\* given by the location of its node in `doc`, a sequence of path elements
\* (match.value is the node there)
JSONPath(expr, doc) == Trace(doc, expr, <<>>)

(***************************************************************************)
(* match.path of a resultType 'all' result. jsonpath-plus hands every      *)
(* result through _getPreferredOutput, which for 'all' replaces the path   *)
(* array by its normalized string (JSONPath.toPathString, "$['list'][0]"): *)
(* the property is a string, whatever the match.                           *)
(***************************************************************************)
\* a match.path that is the array of the elements of the location
MatchPathAsArray(at) == [isArray |-> TRUE, at |-> at]

\* match.path as jsonpath-plus gives it
MatchPath(at) == [isArray |-> FALSE, at |-> at]

JSONPathThrows(expr, doc) == TraceThrows(doc, expr, <<>>)

\* the keys that match /^[a-zA-Z_][\w$]*$/
Identifiers ==
  { "info", "title", "version", "paths", "get", "patch", "summary",
    "parameters", "name", "in", "list", "cfg", "a", "b", "c", "l", "o",
    "x", "y" }

\* toJsonPath(arr): a match path back to an expression
toJsonPath(arr) ==
  [n \in 1..Len(arr) |->
     IF arr[n].e = "idx" THEN At(arr[n].i)
     ELSE IF arr[n].k \in Identifiers THEN Dot(arr[n].k)
          ELSE BrDq(arr[n].k)]

\* ------------------------------------------------------------- deepmerge

\* is-mergeable-object: a non-null object or array
isMergeableObject(x) == x.t \in {"obj", "arr"}

\* the characters of the strings of this model, for Object.keys of a string
Chars(s) == IF s = "New" THEN << "N", "e", "w" >> ELSE <<>>

\* the property names of the characters of a string: "0", "1", ...
IndexKey(n) == << "0", "1", "2" >>[n]

\* getKeys(source) and source[key], for the sources that do not throw
SourceFn(source) ==
  IF source.t = "obj" THEN source.o
  ELSE IF source.t = "str"
       THEN LET cs == Chars(source.s)
            IN [k \in {IndexKey(n) : n \in 1..Len(cs)} |->
                  Str(cs[CHOOSE n \in 1..Len(cs) : IndexKey(n) = k])]
       ELSE EmptyFn

\* Object.keys(null) and Object.keys(undefined) are TypeErrors
deepmergeThrows(target, source) ==
  /\ IsArray(source) = IsArray(target)
  /\ ~IsArray(source)
  /\ source.t \in {"null", "undef"}

RECURSIVE deepmerge(_, _)
\* deepmerge(target, source, { arrayMerge: (dest, src) => dest.concat(src) });
\* the default arrayMerge concatenates too
deepmerge(target, source) ==
  IF IsArray(source) # IsArray(target) THEN source
  ELSE IF IsArray(source) THEN Arr(target.a \o source.a)
  ELSE LET base == IF target.t = "obj" THEN target.o ELSE EmptyFn
           src == SourceFn(source)
       IN Obj([k \in DOMAIN base \cup DOMAIN src |->
                 IF k \notin DOMAIN src THEN base[k]
                 ELSE IF k \in DOMAIN base /\ isMergeableObject(src[k])
                      THEN deepmerge(base[k], src[k])
                      ELSE src[k]])

\* ------------------------------------------------- OverlayApplier.applyAction

(***************************************************************************)
(* An action is [hasTarget, target, update, remove]: target the path       *)
(* expression (hasTarget is FALSE when the field is absent or empty),      *)
(* update and remove JSON values, Undefined when the field is absent.      *)
(***************************************************************************)

\* expr === '$.info'
IsInfoExpr(expr) == expr = << Dot("info") >>

\* expr.startsWith("$.paths[") && expr.endsWith("].get")
IsPathsGetExpr(expr) ==
  /\ Len(expr) >= 3
  /\ expr[1] = Dot("paths")
  /\ expr[2].k \in BracketKinds
  /\ expr[Len(expr)] = Dot("get")
  /\ expr[Len(expr) - 1].k \in BracketKinds

\* expr.match(/\$\.paths\['([^']+)'\]/) is not null; PathOf is its group 1
HasPathMatch(expr) ==
  Len(expr) >= 2 /\ expr[1] = Dot("paths") /\ expr[2].k = "br"

PathOf(expr) == expr[2].n

\* expr.includes('parameters[?(@.name==')
IncludesParamFilter(expr) ==
  \E n \in 1..(Len(expr) - 1) :
     expr[n] = Dot("parameters") /\ expr[n + 1].k \in FilterKinds

\* expr.match(/name=='([^']+)'/)[1]: the name of the first filter
NameOf(expr) ==
  expr[CHOOSE n \in 1..Len(expr) :
         /\ expr[n].k \in FilterKinds
         /\ \A j \in 1..(n - 1) : expr[j].k \notin FilterKinds].n

\* expr.includes('.<name>.')
IncludesDotted(expr, name) ==
  \E n \in 1..(Len(expr) - 1) : expr[n] = Dot(name) /\ expr[n + 1].k = "dot"

\* the method the parameter branch reads from the expression (lines 167-170)
MethodOf(expr) ==
  IF IncludesDotted(expr, "get") THEN "get"
  ELSE IF IncludesDotted(expr, "post") THEN "post"
  ELSE IF IncludesDotted(expr, "put") THEN "put"
  ELSE IF IncludesDotted(expr, "delete") THEN "delete"
  ELSE "get"

\* update && typeof update === 'object'
IsObjectUpdate(update) == IsObjectLike(update)

\* params.findIndex(p => p.name === paramName), 0-based, -1 when none
FindIndex(params, paramName) ==
  LET hits == { n \in 1..Len(params) :
                  /\ params[n].t = "obj"
                  /\ "name" \in DOMAIN params[n].o
                  /\ params[n].o["name"] = Str(paramName) }
  IN IF hits = {} THEN -1
     ELSE (CHOOSE n \in hits : \A h \in hits : n <= h) - 1

\* p.name on a null element visited by findIndex is a TypeError
FindIndexThrows(params, paramName) ==
  \E n \in 1..Len(params) :
     /\ params[n].t = "null"
     /\ (FindIndex(params, paramName) = -1 \/ n - 1 < FindIndex(params, paramName))

\* lines 158-182: the branch for parameter filters
ParamBranch(doc, expr, update) ==
  LET opPath == << Key("paths"), Key(PathOf(expr)), Key(MethodOf(expr)) >>
      op == GetPath(doc, opPath)
      params == Member(op, Key("parameters"))
      paramIndex == FindIndex(params.a, NameOf(expr))
      at == opPath \o << Key("parameters"), Idx(paramIndex) >>
  IN IF op.t \in {"undef", "null"} \/ ~IsArray(params)
       THEN [doc |-> doc, threw |-> TRUE]
     ELSE IF FindIndexThrows(params.a, NameOf(expr))
       THEN [doc |-> doc, threw |-> TRUE]
     ELSE IF paramIndex # -1
       THEN [doc |-> SetPath(doc, at, deepmerge(GetPath(doc, at), update)),
             threw |-> FALSE]
     ELSE [doc |-> doc, threw |-> FALSE]

\* parentRef.splice(Number(key), 1)
Splice(arr, key) ==
  LET n == IF key.e = "idx" THEN key.i ELSE 0
  IN [j \in 1..(IF n < Len(arr) THEN Len(arr) - 1 ELSE Len(arr)) |->
        IF j <= n THEN arr[j] ELSE arr[j + 1]]

\* lines 198-202: delete the member `key` of the container at `parentPath`
RemoveMember(doc, parentPath, key) ==
  LET parentRef == GetPath(doc, parentPath)
  IN IF IsArray(parentRef)
     THEN SetPath(doc, parentPath, Arr(Splice(parentRef.a, key)))
     ELSE IF parentRef.t = "obj" /\ key.e = "key"
          THEN SetPath(doc, parentPath,
                 Obj([k \in DOMAIN parentRef.o \ {key.k} |-> parentRef.o[k]]))
          ELSE doc

\* lines 186-233: the loop body for one match at `path`. `doc0` is the
\* document the matches were computed on (match.value is its node at `path`),
\* `cur` the document as the earlier matches of this action left it. Line 186
\* skips a match whose path is no array; past it, the lines read the path as
\* the array of the elements of the location ('$' first).
ProcessMatch(doc0, cur, path, action) ==
  LET parentPath == IF path = <<>> THEN <<>> ELSE SubSeq(path, 1, Len(path) - 1)
      key == IF path = <<>> THEN Key("$") ELSE path[Len(path)]
      found == JSONPath(toJsonPath(parentPath), cur)
      parentAt == found[1]
      targetNode == GetPath(doc0, path)
      here == parentAt \o << key >>
  IN IF ~MatchPath(path).isArray
       THEN [doc |-> cur, threw |-> FALSE]
     ELSE IF found = <<>> \/ ~IsObjectLike(GetPath(cur, parentAt))
       THEN [doc |-> cur, threw |-> FALSE]
     ELSE IF action.remove = Bool(TRUE)
       THEN [doc |-> RemoveMember(cur, parentAt, key), threw |-> FALSE]
     ELSE IF action.update = Undefined
       THEN [doc |-> cur, threw |-> FALSE]
     ELSE IF IsArray(targetNode)
       THEN [doc |-> IF IsArray(GetPath(cur, path))
                     THEN SetPath(cur, path,
                            Arr(Append(GetPath(cur, path).a, action.update)))
                     ELSE cur,
             threw |-> FALSE]
     ELSE IF targetNode.t = "obj"
       THEN IF deepmergeThrows(targetNode, action.update)
            THEN [doc |-> cur, threw |-> TRUE]
            ELSE [doc |-> SetPath(cur, here, deepmerge(targetNode, action.update)),
                  threw |-> FALSE]
     ELSE [doc |-> SetPath(cur, here, action.update), threw |-> FALSE]

RECURSIVE ProcessMatches(_, _, _, _)
\* lines 185-234: the matches in order, until one throws
ProcessMatches(doc0, cur, matches, action) ==
  IF matches = <<>> THEN [doc |-> cur, threw |-> FALSE]
  ELSE LET r == ProcessMatch(doc0, cur, Head(matches), action)
       IN IF r.threw THEN r
          ELSE ProcessMatches(doc0, r.doc, Tail(matches), action)

\* lines 141-234: what applyAction does once the query matched something
ApplyMatched(doc, action, matches) ==
  LET expr == action.target
      update == action.update
  IN IF IsInfoExpr(expr) /\ IsObjectUpdate(update)
       THEN [doc |-> SetPath(doc, << Key("info") >>,
                       deepmerge(Member(doc, Key("info")), update)),
             threw |-> FALSE]
     ELSE IF IsPathsGetExpr(expr) /\ IsObjectUpdate(update) /\ HasPathMatch(expr)
       THEN LET at == << Key("paths"), Key(PathOf(expr)), Key("get") >>
            IN [doc |-> SetPath(doc, at, deepmerge(GetPath(doc, at), update)),
                threw |-> FALSE]
     ELSE IF IncludesParamFilter(expr) /\ IsObjectUpdate(update) /\ HasPathMatch(expr)
       THEN ParamBranch(doc, expr, update)
     ELSE ProcessMatches(doc, doc, matches, action)

\* the body of the try without the zero-match return of line 139
TryBodyNoZeroReturn(doc, action) ==
  IF JSONPathThrows(action.target, doc)
    THEN [doc |-> doc, threw |-> TRUE]
    ELSE ApplyMatched(doc, action, JSONPath(action.target, doc))

\* lines 134-234: the body of the try: the document as it leaves it, and
\* whether it left it by an exception
TryBody(doc, action) ==
  IF JSONPathThrows(action.target, doc)
    THEN [doc |-> doc, threw |-> TRUE]
  ELSE LET matches == JSONPath(action.target, doc)
       IN IF matches = <<>>
            THEN [doc |-> doc, threw |-> FALSE]
          ELSE ApplyMatched(doc, action, matches)

\* a catch that throws the error on
CatchRethrows(r) == [doc |-> r.doc, thrown |-> r.threw, caught |-> FALSE]

\* lines 235-240: the catch logs the error, and the document is returned
Catch(r) == [doc |-> r.doc, thrown |-> FALSE, caught |-> r.threw]

\* applyAction(doc, action): the document it returns, whether it threw
\* (line 132, outside the try) and whether the catch ran
applyAction(doc, action) ==
  IF ~action.hasTarget
    THEN [doc |-> doc, thrown |-> TRUE, caught |-> FALSE]
    ELSE Catch(TryBody(doc, action))

\* ------------------------------------------- the objects applyAction shares

(***************************************************************************)
(* Lines 141-233 store object references. deepmerge returns a new object   *)
(* that holds clones of what it merges, but targetNode.push(update) (line  *)
(* 212) and parentRef[key] = update (lines 228, 230) put the update object *)
(* of the overlay itself into the document. A link [at, j] says that the   *)
(* node at location `at` of the working document is the update object of   *)
(* action j; a write into a container under a link writes into that update *)
(* object. A heap is [doc, links, updates]: the working document, the      *)
(* links, and the update value of every action as it is now.               *)
(***************************************************************************)

IsPrefix(p, q) == Len(p) <= Len(q) /\ SubSeq(q, 1, Len(p)) = p

NoWrite == [kind |-> "none", at |-> << >>, shares |-> FALSE]

\* lines 186-233: what the loop body writes for one match: a member removed
\* ("remove"), an element appended ("push") or a member assigned
\* ("assign") at `at`, and whether what is stored is the update object
WriteOf(doc0, cur, path, action) ==
  LET parentPath == IF path = <<>> THEN <<>> ELSE SubSeq(path, 1, Len(path) - 1)
      key == IF path = <<>> THEN Key("$") ELSE path[Len(path)]
      found == JSONPath(toJsonPath(parentPath), cur)
      parentAt == found[1]
      targetNode == GetPath(doc0, path)
      here == parentAt \o << key >>
  IN IF ~MatchPath(path).isArray THEN NoWrite
     ELSE IF found = <<>> \/ ~IsObjectLike(GetPath(cur, parentAt)) THEN NoWrite
     ELSE IF action.remove = Bool(TRUE)
       THEN [kind |-> "remove", at |-> here, shares |-> FALSE]
     ELSE IF action.update = Undefined THEN NoWrite
     ELSE IF IsArray(targetNode)
       THEN IF IsArray(GetPath(cur, path))
            THEN [kind |-> "push",
                  at |-> path \o << Idx(Len(GetPath(cur, path).a)) >>,
                  shares |-> IsObjectLike(action.update)]
            ELSE NoWrite
     ELSE IF targetNode.t = "obj"
       THEN IF deepmergeThrows(targetNode, action.update) THEN NoWrite
            ELSE [kind |-> "assign", at |-> here, shares |-> FALSE]
     ELSE [kind |-> "assign", at |-> here, shares |-> IsObjectLike(action.update)]

\* lines 141-182: what a special branch writes: the merged object, a new one
SpecialWriteOf(doc, action) ==
  LET expr == action.target
      merged(at) == [kind |-> "assign", at |-> at, shares |-> FALSE]
  IN IF IsInfoExpr(expr) THEN merged(<< Key("info") >>)
     ELSE IF IsPathsGetExpr(expr) /\ HasPathMatch(expr)
       THEN merged(<< Key("paths"), Key(PathOf(expr)), Key("get") >>)
     ELSE LET opPath == << Key("paths"), Key(PathOf(expr)), Key(MethodOf(expr)) >>
              params == Member(GetPath(doc, opPath), Key("parameters"))
              paramIndex == FindIndex(params.a, NameOf(expr))
          IN  IF paramIndex # -1
              THEN merged(opPath \o << Key("parameters"), Idx(paramIndex) >>)
              ELSE NoWrite

\* the location a link is at once the element `removed` of an array is
\* spliced out: the elements after it move down by one
AfterSplice(at, removed) ==
  LET n == Len(removed)
      parent == SubSeq(removed, 1, n - 1)
  IN IF /\ removed[n].e = "idx"
        /\ Len(at) >= n
        /\ SubSeq(at, 1, n - 1) = parent
        /\ at[n].e = "idx"
        /\ at[n].i > removed[n].i
     THEN [at EXCEPT ![n] = Idx(at[n].i - 1)]
     ELSE at

\* the heap after the write w of action j, newDoc being the document after it
Track(h, w, newDoc, j) ==
  LET kept ==
        CASE w.kind = "none" -> h.links
          [] w.kind = "push" -> h.links
          [] w.kind = "assign" -> { l \in h.links : ~IsPrefix(w.at, l.at) }
          [] w.kind = "remove" ->
               { [l EXCEPT !.at = AfterSplice(l.at, w.at)] :
                   l \in { l \in h.links : ~IsPrefix(w.at, l.at) } }
      now(k) ==
        LET changed == { l \in kept : l.j = k /\ GetPath(newDoc, l.at) # h.updates[k] }
        IN  IF changed = { } THEN h.updates[k]
            ELSE GetPath(newDoc, (CHOOSE l \in changed : TRUE).at)
  IN [doc |-> newDoc,
      links |-> kept \cup (IF w.shares THEN { [at |-> w.at, j |-> j] } ELSE { }),
      updates |-> [k \in DOMAIN h.updates |-> now(k)]]

\* lines 185-234 on a heap: the matches in order, until one throws
RECURSIVE TrackMatches(_, _, _, _, _)
TrackMatches(doc0, h, matches, action, j) ==
  IF matches = <<>> THEN h
  ELSE LET r == ProcessMatch(doc0, h.doc, Head(matches), action)
       IN IF r.threw THEN h
          ELSE TrackMatches(doc0,
                            Track(h, WriteOf(doc0, h.doc, Head(matches), action),
                                  r.doc, j),
                            Tail(matches), action, j)

\* applyAction on a heap, for action j
TrackAction(h, action, j) ==
  IF ~action.hasTarget \/ JSONPathThrows(action.target, h.doc) THEN h
  ELSE LET matches == JSONPath(action.target, h.doc)
           special ==
             /\ IsObjectUpdate(action.update)
             /\ \/ IsInfoExpr(action.target)
                \/ IsPathsGetExpr(action.target) /\ HasPathMatch(action.target)
                \/ IncludesParamFilter(action.target) /\ HasPathMatch(action.target)
           r == ApplyMatched(h.doc, action, matches)
       IN IF matches = <<>> THEN h
          ELSE IF special
            THEN IF r.threw THEN h
                 ELSE Track(h, SpecialWriteOf(h.doc, action), r.doc, j)
          ELSE TrackMatches(h.doc, h, matches, action, j)

\* the heap after the first n actions of the overlay, from the clone of line 121
RECURSIVE HeapAfter(_, _, _)
HeapAfter(doc, actions, n) ==
  IF n = 0
  THEN [doc |-> doc, links |-> { },
        updates |-> [k \in 1..Len(actions) |-> actions[k].update]]
  ELSE TrackAction(HeapAfter(doc, actions, n - 1), actions[n], n)

\* -------------------------------------------------------------- the inputs

\* overlays hold at most this many actions
MaxActions == 2

Param(n, i) == Obj([name |-> Str(n), in |-> Str(i)])

\* an OpenAPI document with two operations under one path and three more
\* members of the shapes the engine tells apart
Petstore ==
  Obj([info |-> Obj([title |-> Str("Old"), version |-> Str("1")]),
       paths |-> Obj([k \in {"/p"} |->
          Obj([get |-> Obj([summary |-> Str("List"),
                            parameters |-> Arr(<< Param("id", "path"),
                                                  Param("id", "query"),
                                                  Param("q", "query") >>)]),
               patch |-> Obj([parameters |-> Arr(<< Param("id", "path") >>)])])]),
       title |-> Str("Old"),
       list |-> Arr(<< Num(1), Obj([a |-> Num(1)]), Num(2) >>),
       cfg |-> Obj([a |-> Num(1), b |-> Num(2), l |-> Arr(<< Num(1) >>),
                    o |-> Obj([x |-> Num(1)])])])

\* a document whose info is a sequence and whose path has no get operation
Sparse ==
  Obj([info |-> Arr(<< Num(1), Num(2) >>),
       paths |-> Obj([k \in {"/p"} |->
          Obj([patch |-> Obj([parameters |-> Arr(<< Param("id", "path") >>)])])]),
       list |-> Arr(<< >>)])

Docs == { Petstore, Sparse }

UObj ==
  Obj([b |-> Num(3), c |-> Num(4), l |-> Arr(<< Num(2) >>),
       o |-> Obj([y |-> Num(2)])])

\* an update that adds a parameter to an operation
UParam == Obj([parameters |-> Arr(<< Param("new", "query") >>)])

UArr == Arr(<< Num(9) >>)

InfoX == << Dot("info") >>
GetX == << Dot("paths"), Br("/p"), Dot("get") >>
ParamsX == GetX \o << Dot("parameters") >>
PatchParamsX == << Dot("paths"), Br("/p"), Dot("patch"), Dot("parameters") >>
ListX == << Dot("list") >>
TitleX == << Dot("title") >>
CfgX == << Dot("cfg") >>
MissingX == << Dot("nonexistent"), Dot("path") >>

Update(expr, u) ==
  [hasTarget |-> TRUE, target |-> expr, update |-> u, remove |-> Undefined]

Remove(expr) ==
  [hasTarget |-> TRUE, target |-> expr, update |-> Undefined, remove |-> Bool(TRUE)]

\* an action with both directives
RemoveUpdate(expr, u) ==
  [hasTarget |-> TRUE, target |-> expr, update |-> u, remove |-> Bool(TRUE)]

\* the expression '$'
RootX == << >>

Actions ==
  { Update(InfoX, UObj), Update(InfoX, UArr), Remove(InfoX),
    RemoveUpdate(InfoX, UObj), RemoveUpdate(GetX, UObj),
    RemoveUpdate(ParamsX \o << FName("id") >>, UObj),
    Update(RootX, UObj),
    Update(InfoX \o << Dot("title") >>, Str("New")),
    Update(GetX, UObj), Update(GetX, UParam), Remove(GetX),
    Update(ParamsX \o << FName("id") >>, UObj),
    Update(ParamsX \o << FNameIn("id", "query") >>, UObj),
    Update(ParamsX \o << FName("new") >>, UObj),
    Update(ParamsX \o << FName("q"), Dot("in") >>, UObj),
    Update(PatchParamsX \o << FName("id") >>, UObj),
    Remove(ParamsX \o << FName("id") >>),
    Update(ListX, Num(3)),
    Update(ListX, UObj),
    Update(TitleX, UArr),
    Update(ListX \o << Wild, Dot("l") >>, Num(3)),
    Update(ListX \o << Wild >>, Null),
    Update(ListX \o << BadFilter >>, UObj),
    Update(TitleX, Str("New")),
    Update(CfgX, UObj),
    Update(MissingX, UObj), Remove(MissingX),
    [hasTarget |-> TRUE, target |-> TitleX, update |-> Undefined,
     remove |-> Undefined],
    [hasTarget |-> FALSE, target |-> << >>, update |-> UObj,
     remove |-> Undefined] }

ActionSeqs == UNION { [1..n -> Actions] : n \in 0..MaxActions }

OverlayInfo == Obj([title |-> Str("Overlay"), version |-> Str("1")])

\* formal overlays with and without info, with and without actions, and
\* overlays without the version field
Overlays ==
  { [overlay |-> Str("1.0.0"), info |-> inf, actions |-> Arr(as)] :
      inf \in { OverlayInfo, Undefined }, as \in ActionSeqs }
  \cup { [overlay |-> ver, info |-> inf, actions |-> Undefined] :
           ver \in { Str("1.0.0"), Undefined },
           inf \in { OverlayInfo, Undefined } }

\* ------------------------------------------------- OverlayApplier.apply

VARIABLES
  target,      \* the caller's target object, as it is now
  target0,     \* what the caller's target object held when apply was called
  overlay,     \* the overlay document
  copy,        \* the object clone() made, Undefined before
  workingDoc,  \* the object workingDoc refers to: "none", "target" or "copy"
  i,           \* position of the for loop: the next action, from 1
  prev,        \* the working document as the latest applyAction call got it
  caught,      \* the actions whose error the catch of applyAction logged
  pc,          \* "call", "clone", "loop", "done" or "thrown"
  error        \* what apply threw, "" when nothing

\* a caller that makes several apply calls with objects it keeps
VARIABLES
  callerTarget,   \* the caller's target object, as it is now
  callerTarget0,  \* what that object held before the first call
  overlayA,       \* an overlay object
  overlayB,       \* another overlay object
  results,        \* what each call made so far returned or threw
  call            \* the call under way: "first", "again", "then", "combined"

\* one call of the mock's applyOverlay
VARIABLES
  baseSpec,       \* the base specification passed in
  legacyOverlay,  \* the overlay passed in
  legacyResult,   \* what applyOverlay returned, Undefined before
  legacyPc        \* "call", "done" or "thrown"; "idle" when there is no call

\* one call of validateOverlay
VARIABLES
  validated,      \* the overlay passed to validateOverlay
  validation      \* "pending", "valid", or the message of the Error thrown

\* one call of getProcessedOpenApi
VARIABLES
  baseApi,           \* the object baseApi refers to, as it is now
  loadedSpec,        \* what loadSpec returned
  overlayFiles,      \* what the files of config.overlayPaths hold, in order
  overlayIndex,      \* position of the for loop over config.overlayPaths, from 1
  skipped,           \* the positions whose overlay the catch logged
  targetApiBaseUrl,  \* whether config.targetApiBaseUrl is set
  gpc                \* "loop", "applying", "returned" or "threw"

\* one call of mapOpenApiToMcpTools
VARIABLES
  openapi,      \* the document passed in
  whitelist,    \* config.filter.whitelist: null, or the patterns
  blacklist,    \* config.filter.blacklist
  mappedTools,  \* the array of the same name
  pathIndex,    \* position of the loop over openapi.paths, from 1
  methodIndex,  \* position of the loop over the keys of the path item, from 1
  mpc           \* "call", "loop" or "returned"

\* one call of executeApiCall, and the call of applySecurity in it
VARIABLES
  details,               \* the ApiCallDetails passed in
  mcpInput,              \* the MCP input passed in
  customHeaders,         \* config.customHeaders
  disableXMcp,           \* config.disableXMcp
  securityCredentials,   \* config.securityCredentials
  apiKey,                \* config.apiKey, "" when there is none
  url,                   \* the local of the same name, in pieces
  queryParams,           \* the local of the same name
  headers,               \* the local of the same name
  body,                  \* the local of the same name
  paramIndex,            \* position of the loop over details.parameters, from 1
  requestConfig,         \* the request object, as it is now
  requestConfig0,        \* what it held when applySecurity was called
  securityRequirements,  \* applySecurity's argument: null, or the requirements
  securitySchemes,       \* applySecurity's argument: undefined, or the schemes
  requirementIndex,      \* position of the loop over the requirements, from 1
  schemeIndex,           \* position of the loop over the scheme names, from 1
  allSchemesSatisfied,   \* the local of the same name
  spc,                   \* applySecurity: "idle", "call", "loop", "returned"
  result,                \* what executeApiCall returned, NoResult before
  requests,              \* the request objects axios was called with
  epc                    \* executeApiCall: "idle", "call", "params", "body",
                         \* "headers", "security", "returned"

\* one load of the configuration module
VARIABLES
  argv,          \* the command-line options given
  processEnv,    \* process.env
  jsonConfig,    \* the JSON configuration file, parsed
  config,        \* the exported configuration
  cpc            \* "idle", "start", or the module that built config

applyVars == << target, target0, overlay, copy, workingDoc, i, prev, caught, pc, error >>

callerVars == << callerTarget, callerTarget0, overlayA, overlayB, results, call >>

legacyVars == << baseSpec, legacyOverlay, legacyResult, legacyPc >>

validateVars == << validated, validation >>

mapVars ==
  << openapi, whitelist, blacklist, mappedTools, pathIndex, methodIndex, mpc >>

\* what applySecurity reads and writes
secVars ==
  << securityCredentials, apiKey, requestConfig, requestConfig0, securityRequirements,
     securitySchemes, requirementIndex, schemeIndex, allSchemesSatisfied, spc >>

\* what only executeApiCall reads and writes
callVars ==
  << details, mcpInput, customHeaders, disableXMcp, url, queryParams, headers, body,
     paramIndex, result, requests, epc >>

execVars == << secVars, callVars >>

cfgVars == << argv, processEnv, jsonConfig, config, cpc >>

\* the variables of code that never calls apply
standaloneVars == << legacyVars, validateVars, mapVars, execVars, cfgVars >>

gpVars ==
  << baseApi, loadedSpec, overlayFiles, overlayIndex, skipped, targetApiBaseUrl, gpc >>

\* the variables apply's own steps do not touch
notApplyVars == << callerVars, standaloneVars, gpVars >>

vars == << applyVars, notApplyVars >>

\* no caller
CallerIdle ==
  /\ callerTarget = Undefined
  /\ callerTarget0 = Undefined
  /\ overlayA = Undefined
  /\ overlayB = Undefined
  /\ results = << >>
  /\ call = "none"

\* no call of the mock
LegacyIdle ==
  /\ baseSpec = Undefined
  /\ legacyOverlay = Undefined
  /\ legacyResult = Undefined
  /\ legacyPc = "idle"

\* no call of validateOverlay
ValidateIdle ==
  /\ validated = Undefined
  /\ validation = "idle"

\* no call of mapOpenApiToMcpTools
MapIdle ==
  /\ openapi = [hasPaths |-> FALSE, paths |-> << >>]
  /\ whitelist = [null |-> TRUE, a |-> << >>]
  /\ blacklist = << >>
  /\ mappedTools = << >>
  /\ pathIndex = 1
  /\ methodIndex = 1
  /\ mpc = "idle"

\* a request object before it is built
NoRequest ==
  [method |-> "", url |-> << >>, params |-> << >>, headers |-> << >>,
   data |-> Undefined]

NoResult == [success |-> FALSE, statusCode |-> 0]

\* no call of applySecurity
SecIdle ==
  /\ securityCredentials = << >>
  /\ apiKey = ""
  /\ requestConfig = NoRequest
  /\ requestConfig0 = NoRequest
  /\ securityRequirements = [null |-> TRUE, a |-> << >>]
  /\ securitySchemes = [defined |-> FALSE, m |-> << >>]
  /\ requirementIndex = 1
  /\ schemeIndex = 1
  /\ allSchemesSatisfied = TRUE
  /\ spc = "idle"

\* no call of executeApiCall
CallIdle ==
  /\ details = Undefined
  /\ mcpInput = Undefined
  /\ customHeaders = << >>
  /\ disableXMcp = FALSE
  /\ url = << >>
  /\ queryParams = << >>
  /\ headers = << >>
  /\ body = Undefined
  /\ paramIndex = 1
  /\ result = NoResult
  /\ requests = << >>
  /\ epc = "idle"

ExecIdle == SecIdle /\ CallIdle

\* no load of the configuration
CfgIdle ==
  /\ argv = << >>
  /\ processEnv = << >>
  /\ jsonConfig = << >>
  /\ config = << >>
  /\ cpc = "idle"

StandaloneIdle == LegacyIdle /\ ValidateIdle /\ MapIdle /\ ExecIdle /\ CfgIdle

\* no call of getProcessedOpenApi
GpIdle ==
  /\ baseApi = Undefined
  /\ loadedSpec = Undefined
  /\ overlayFiles = << >>
  /\ overlayIndex = 1
  /\ skipped = {}
  /\ targetApiBaseUrl = FALSE
  /\ gpc = "idle"

NotApplyIdle == CallerIdle /\ StandaloneIdle /\ GpIdle

\* no apply call under way
ApplyIdle ==
  /\ target = Undefined
  /\ target0 = Undefined
  /\ overlay = Undefined
  /\ copy = Undefined
  /\ workingDoc = "none"
  /\ i = 1
  /\ prev = Undefined
  /\ caught = {}
  /\ pc = "idle"
  /\ error = ""

\* the content of the object a reference names
Deref(ref) == IF ref = "target" THEN target ELSE copy

\* a clone that hands back the object it was given
cloneSameObject(ref) == ref

\* clone(obj): a new object holding a deep copy
clone(ref) == "copy"

Init ==
  /\ target \in Docs
  /\ target0 = target
  /\ overlay \in Overlays
  /\ copy = Undefined
  /\ workingDoc = "none"
  /\ i = 1
  /\ prev = Undefined
  /\ caught = {}
  /\ pc = "call"
  /\ error = ""
  /\ NotApplyIdle

\* lines 117-118: the overlay must have its version field
ApplyCheckVersion ==
  /\ pc = "call"
  /\ IF overlay.overlay = Undefined
       THEN pc' = "thrown" /\ error' = "missing overlay version"
       ELSE pc' = "clone" /\ error' = error
  /\ UNCHANGED << target, target0, overlay, copy, workingDoc, i, prev, caught >>
  /\ UNCHANGED notApplyVars

\* lines 120-121
ApplyClone ==
  /\ pc = "clone"
  /\ workingDoc' = clone("target")
  /\ copy' = IF workingDoc' = "copy" THEN target ELSE copy
  /\ pc' = "loop"
  /\ UNCHANGED << target, target0, overlay, i, prev, caught, error >>
  /\ UNCHANGED notApplyVars

\* a loop that hands every action the document apply started from
LoopStepOnOriginal(doc, actions, n) == applyAction(target0, actions[n])

\* line 124, for the action the loop is at
LoopStep(doc, actions, n) == applyAction(doc, actions[n])

\* lines 123-125: one turn of the loop
ApplyLoop ==
  /\ pc = "loop"
  /\ overlay.actions # Undefined
  /\ i <= Len(overlay.actions.a)
  /\ LET r == LoopStep(Deref(workingDoc), overlay.actions.a, i)
     IN IF r.thrown
          THEN /\ pc' = "thrown"
               /\ error' = "action missing target"
               /\ UNCHANGED << target, copy, i, prev, caught >>
          ELSE /\ target' = IF workingDoc = "target" THEN r.doc ELSE target
               /\ copy' = IF workingDoc = "copy" THEN r.doc ELSE copy
               /\ prev' = Deref(workingDoc)
               /\ caught' = IF r.caught THEN caught \cup {i} ELSE caught
               /\ i' = i + 1
               /\ UNCHANGED << pc, error >>
  /\ UNCHANGED << target0, overlay, workingDoc >>
  /\ UNCHANGED notApplyVars

\* line 123 when overlayDoc.actions is undefined: for...of throws a TypeError
ApplyNotIterable ==
  /\ pc = "loop"
  /\ overlay.actions = Undefined
  /\ pc' = "thrown"
  /\ error' = "actions is not iterable"
  /\ UNCHANGED << target, target0, overlay, copy, workingDoc, i, prev, caught >>
  /\ UNCHANGED notApplyVars

\* line 126
ApplyReturn ==
  /\ pc = "loop"
  /\ overlay.actions # Undefined
  /\ i > Len(overlay.actions.a)
  /\ pc' = "done"
  /\ UNCHANGED << target, target0, overlay, copy, workingDoc, i, prev, caught, error >>
  /\ UNCHANGED notApplyVars

Next ==
  \/ ApplyCheckVersion
  \/ ApplyClone
  \/ ApplyLoop
  \/ ApplyNotIterable
  \/ ApplyReturn

Spec == Init /\ [][Next]_vars

\* ------------------------------------------------- a caller of apply

\* the caller's overlays hold at most this many actions
MaxCallerActions == 1

CallerActions ==
  { Update(InfoX, UObj), Remove(InfoX),
    Update(GetX, UParam),
    Update(ParamsX \o << FName("id") >>, UObj),
    Update(ParamsX \o << FName("new") >>, UObj),
    Update(PatchParamsX \o << FName("id") >>, UObj),
    Update(ListX \o << BadFilter >>, UObj),
    [hasTarget |-> FALSE, target |-> << >>, update |-> UObj,
     remove |-> Undefined] }

CallerOverlays ==
  { [overlay |-> Str("1.0.0"), info |-> OverlayInfo, actions |-> Arr(as)] :
      as \in UNION { [1..n -> CallerActions] : n \in 0..MaxCallerActions } }

\* one overlay object holding A's actions followed by B's
Combined(a, b) ==
  [overlay |-> a.overlay, info |-> a.info,
   actions |-> Arr(a.actions.a \o b.actions.a)]

InitCaller ==
  /\ callerTarget \in Docs
  /\ callerTarget0 = callerTarget
  /\ overlayA \in CallerOverlays
  /\ overlayB \in CallerOverlays
  /\ results = << >>
  /\ call = "none"
  /\ ApplyIdle
  /\ StandaloneIdle
  /\ GpIdle

\* line 116: apply is entered with a target object and an overlay object
Enter(targetObj, overlayDoc) ==
  /\ target' = targetObj
  /\ target0' = targetObj
  /\ overlay' = overlayDoc
  /\ copy' = Undefined
  /\ workingDoc' = "none"
  /\ i' = 1
  /\ prev' = Undefined
  /\ caught' = {}
  /\ pc' = "call"
  /\ error' = ""

\* apply(T, A)
CallFirst ==
  /\ call = "none"
  /\ "first" \notin DOMAIN results
  /\ call' = "first"
  /\ Enter(callerTarget, overlayA)
  /\ UNCHANGED << callerTarget, callerTarget0, overlayA, overlayB, results >>
  /\ UNCHANGED << standaloneVars, gpVars >>

\* apply(T, A) once more, with the same two objects
CallAgain ==
  /\ call = "none"
  /\ "first" \in DOMAIN results
  /\ "again" \notin DOMAIN results
  /\ call' = "again"
  /\ Enter(callerTarget, overlayA)
  /\ UNCHANGED << callerTarget, callerTarget0, overlayA, overlayB, results >>
  /\ UNCHANGED << standaloneVars, gpVars >>

\* apply(apply(T, A), B): the object the first call returned is the target
CallThen ==
  /\ call = "none"
  /\ "again" \in DOMAIN results
  /\ "then" \notin DOMAIN results
  /\ ~results["first"].thrown
  /\ call' = "then"
  /\ Enter(results["first"].doc, overlayB)
  /\ UNCHANGED << callerTarget, callerTarget0, overlayA, overlayB, results >>
  /\ UNCHANGED << standaloneVars, gpVars >>

\* apply(T, C), C holding A's actions followed by B's
CallCombined ==
  /\ call = "none"
  /\ "again" \in DOMAIN results
  /\ "combined" \notin DOMAIN results
  /\ "then" \in DOMAIN results \/ results["first"].thrown
  /\ call' = "combined"
  /\ Enter(callerTarget, Combined(overlayA, overlayB))
  /\ UNCHANGED << callerTarget, callerTarget0, overlayA, overlayB, results >>
  /\ UNCHANGED << standaloneVars, gpVars >>

\* apply returns or throws to the caller. The target object now holds what
\* apply left in it
CallerReturn ==
  /\ call # "none"
  /\ pc \in { "done", "thrown" }
  /\ LET out == [thrown |-> pc = "thrown",
                 doc |-> IF pc = "done" THEN Deref(workingDoc) ELSE Undefined]
         had == IF call = "then"
                  THEN [results EXCEPT !["first"].doc = target]
                  ELSE results
     IN results' = had @@ (call :> out)
  /\ callerTarget' = IF call = "then" THEN callerTarget ELSE target
  /\ call' = "none"
  /\ pc' = "idle"
  /\ UNCHANGED << target, target0, overlay, copy, workingDoc, i, prev, caught, error >>
  /\ UNCHANGED << callerTarget0, overlayA, overlayB >>
  /\ UNCHANGED << standaloneVars, gpVars >>

NextCaller ==
  \/ CallFirst
  \/ CallAgain
  \/ CallThen
  \/ CallCombined
  \/ ApplyCheckVersion
  \/ ApplyClone
  \/ ApplyLoop
  \/ ApplyReturn
  \/ CallerReturn

SpecCaller == InitCaller /\ [][NextCaller]_vars

\* ----------------------------------------------------- validateOverlay

\* a loop that returns after its first action
validateActionsFirstOnly(actions, n) ==
  IF actions = << >> THEN ""
  ELSE IF ~actions[1].hasTarget
    THEN "Each action must have a target JSONPath"
  ELSE IF actions[1].remove = Undefined /\ actions[1].update = Undefined
    THEN "Each action must have either update or remove property"
  ELSE IF actions[1].remove # Undefined /\ actions[1].remove.t # "bool"
    THEN "Action remove property must be a boolean"
  ELSE ""

RECURSIVE validateActionsNoDirectiveCheck(_, _)
\* a loop without the check of lines 566-568
validateActionsNoDirectiveCheck(actions, n) ==
  IF n > Len(actions) THEN ""
  ELSE IF ~actions[n].hasTarget
    THEN "Each action must have a target JSONPath"
  ELSE IF actions[n].remove # Undefined /\ actions[n].remove.t # "bool"
    THEN "Action remove property must be a boolean"
  ELSE validateActionsNoDirectiveCheck(actions, n + 1)

\* lines 560-573 from the n-th action on: the message of the first check that
\* fails, "" when none does
RECURSIVE validateActions(_, _)
validateActions(actions, n) ==
  IF n > Len(actions) THEN ""
  ELSE LET action == actions[n]
       IN IF ~action.hasTarget
            THEN "Each action must have a target JSONPath"
          ELSE IF action.remove = Undefined /\ action.update = Undefined
            THEN "Each action must have either update or remove property"
          ELSE IF action.remove # Undefined /\ action.remove.t # "bool"
            THEN "Action remove property must be a boolean"
          ELSE validateActions(actions, n + 1)

\* lines 533-591: "" when validateOverlay returns true, else the message of
\* the Error it throws
validateOverlay(ov) ==
  IF ov \in { Null, Undefined }
    THEN "Overlay is null or undefined"
  ELSE IF Truthy(ov.overlay)
    THEN IF ov.overlay.t # "str"
           THEN "Overlay version must be a string (e.g., 1.0.0)"
         ELSE IF ~Truthy(ov.info) \/ ~IsObjectLike(ov.info)
           THEN "Formal overlay is missing info object"
         ELSE IF \/ ~Truthy(Member(ov.info, Key("title")))
                 \/ ~Truthy(Member(ov.info, Key("version")))
           THEN "Overlay info must contain title and version"
         ELSE IF ~Truthy(ov.actions) \/ ~IsArray(ov.actions)
           THEN "Formal overlay must have an actions array"
         ELSE validateActions(ov.actions.a, 1)
  ELSE IF \/ Truthy(ov.info)
          \/ Truthy(ov.paths)
          \/ Truthy(ov.components)
          \/ Truthy(ov.tags)
          \/ Truthy(ov.servers)
    THEN ""
  ELSE "Overlay doesn't contain any valid OpenAPI modification properties"

\* overlays passed to validateOverlay hold at most this many actions
MaxValidated == 2

Directive(hasT, u, r) ==
  [hasTarget |-> hasT, target |-> IF hasT THEN TitleX ELSE << >>,
   update |-> u, remove |-> r]

ValidatedActions ==
  { Directive(TRUE, UObj, Undefined),
    Directive(TRUE, Null, Undefined),
    Directive(TRUE, Undefined, Bool(TRUE)),
    Directive(TRUE, Undefined, Bool(FALSE)),
    Directive(TRUE, UObj, Bool(TRUE)),
    Directive(TRUE, Undefined, Undefined),
    Directive(TRUE, UObj, Str("yes")),
    Directive(TRUE, Undefined, Null),
    Directive(FALSE, UObj, Undefined) }

\* an overlay document with the properties validateOverlay reads
Doc(ver, inf, acts, pth, cmp, tgs, srv) ==
  [overlay |-> ver, info |-> inf, actions |-> acts, paths |-> pth,
   components |-> cmp, tags |-> tgs, servers |-> srv]

ValidatedOverlays ==
  { Doc(ver, inf, acts, Undefined, Undefined, Undefined, Undefined) :
      ver \in { Str("1.0.0"), Num(1) },
      inf \in { OverlayInfo, Undefined, Str("x"), Obj([title |-> Str("Overlay")]) },
      acts \in { Arr(as) : as \in UNION { [1..n -> ValidatedActions] :
                                            n \in 0..MaxValidated } }
               \cup { Undefined, Obj(EmptyFn) } }
  \cup { Doc(ver, inf, Undefined, pth, cmp, tgs, srv) :
           ver \in { Undefined, Str("") },
           inf \in { OverlayInfo, Undefined },
           pth \in { Obj(EmptyFn), Undefined },
           cmp \in { Obj(EmptyFn), Undefined },
           tgs \in { Arr(<< >>), Undefined },
           srv \in { Arr(<< >>), Undefined } }
  \cup { Null }

InitValidate ==
  /\ validated \in ValidatedOverlays
  /\ validation = "pending"
  /\ ApplyIdle
  /\ CallerIdle
  /\ LegacyIdle
  /\ GpIdle
  /\ MapIdle
  /\ ExecIdle
  /\ CfgIdle

\* lines 533-591: validateOverlay(overlay) returns true or throws
Validate ==
  /\ validation = "pending"
  /\ validation' = IF validateOverlay(validated) = "" THEN "valid"
                   ELSE validateOverlay(validated)
  /\ UNCHANGED << validated, applyVars, callerVars, legacyVars, gpVars, mapVars,
                  execVars, cfgVars >>

NextValidate == Validate

SpecValidate == InitValidate /\ [][NextValidate]_vars

\* ------------------------- the legacy merge of the openapi-overlays-js mock

\* the own keys an object spread copies from x (what is spread here is an
\* object, undefined or null, never an array or a string)
SpreadKeys(x) == IF x.t = "obj" THEN DOMAIN x.o ELSE {}

\* { ...a, ...b }
Spread(a, b) ==
  Obj([k \in SpreadKeys(a) \cup SpreadKeys(b) |->
         IF k \in SpreadKeys(b) THEN b.o[k] ELSE a.o[k]])

\* obj[k] = v
WithKey(obj, k, v) ==
  Obj([j \in DOMAIN obj.o \cup {k} |-> IF j = k THEN v ELSE obj.o[j]])

\* lines 138-140: findIndex by name and in, from 1, 0 when there is none
FindIndexNameIn(params, overlayParam) ==
  LET same == { j \in 1..Len(params) :
                  /\ Member(params[j], Key("name")) = Member(overlayParam, Key("name"))
                  /\ Member(params[j], Key("in")) = Member(overlayParam, Key("in")) }
  IN IF same = {} THEN 0 ELSE CHOOSE j \in same : \A j2 \in same : j <= j2

RECURSIVE LegacyParamLoop(_, _, _, _)
\* lines 137-152 from the k-th overlay parameter on. sameArray: baseParams and
\* overlayParams are one array object, so a write to one is a write to both
LegacyParamLoop(baseParams, overlayParams, k, sameArray) ==
  IF k > Len(overlayParams) THEN baseParams
  ELSE LET overlayParam == overlayParams[k]
           existingIndex == FindIndexNameIn(baseParams, overlayParam)
           written == IF existingIndex > 0
                        THEN [baseParams EXCEPT
                                ![existingIndex] = Spread(@, overlayParam)]
                        ELSE Append(baseParams, overlayParam)
       IN LegacyParamLoop(written,
                          IF sameArray THEN written ELSE overlayParams,
                          k + 1, sameArray)

\* lines 122-156 for one method of one path
LegacyMethod(resultMethod, overlayMethod) ==
  LET spread == Spread(IF Truthy(resultMethod) THEN resultMethod ELSE Obj(EmptyFn),
                       overlayMethod)
      overlayParams == Member(overlayMethod, Key("parameters"))
      \* line 133: after the spread of lines 126-129 the result's parameters
      \* are the overlay's array object
      found == Member(spread, Key("parameters"))
      baseParams == IF Truthy(found) THEN found ELSE Arr(<< >>)
  IN IF Truthy(overlayParams)
       THEN WithKey(spread, "parameters",
                    Arr(LegacyParamLoop(baseParams.a, overlayParams.a, 1,
                                        Truthy(found))))
       ELSE spread

\* lines 117-157 for one path
LegacyPath(resultPath, overlayPath) ==
  LET start == IF Truthy(resultPath) THEN resultPath ELSE Obj(EmptyFn)
  IN Obj([m \in DOMAIN start.o \cup DOMAIN overlayPath.o |->
            IF m \in DOMAIN overlayPath.o
              THEN LegacyMethod(Member(start, Key(m)), overlayPath.o[m])
              ELSE start.o[m]])

\* lines 115-159
LegacyPaths(resultPaths, overlayPaths) ==
  Obj([q \in DOMAIN resultPaths.o \cup DOMAIN overlayPaths.o |->
         IF q \in DOMAIN overlayPaths.o
           THEN LegacyPath(Member(resultPaths, Key(q)), overlayPaths.o[q])
           ELSE resultPaths.o[q]])

\* lines 162-177
LegacyComponents(resultComponents, overlayComponents) ==
  LET start == IF Truthy(resultComponents) THEN resultComponents ELSE Obj(EmptyFn)
  IN Obj([c \in DOMAIN start.o \cup DOMAIN overlayComponents.o |->
            IF c \in DOMAIN overlayComponents.o
              THEN Spread(Member(start, Key(c)), overlayComponents.o[c])
              ELSE start.o[c]])

\* lines 107-180: applyOverlay on an overlay without the overlay property
applyOverlayLegacy(base, over) ==
  LET r1 == IF Truthy(Member(over, Key("info")))
              THEN WithKey(base, "info",
                           Spread(Member(base, Key("info")), over.o["info"]))
              ELSE base
      r2 == IF Truthy(Member(over, Key("paths")))
              THEN WithKey(r1, "paths",
                           LegacyPaths(Member(r1, Key("paths")), over.o["paths"]))
              ELSE r1
  IN IF Truthy(Member(over, Key("components")))
       THEN WithKey(r2, "components",
                    LegacyComponents(Member(r2, Key("components")),
                                     over.o["components"]))
       ELSE r2

\* line 117: result.paths[path] on a base without paths is a TypeError
applyOverlayLegacyThrows(base, over) ==
  /\ Truthy(Member(over, Key("paths")))
  /\ DOMAIN over.o["paths"].o # {}
  /\ ~IsObjectLike(Member(base, Key("paths")))

\* operations hold at most this many parameters
MaxLegacyParams == 2

BaseParams ==
  { Obj([name |-> Str("id"), in |-> Str("path"), description |-> Str("d")]),
    Param("id", "query"), Param("q", "query") }

OverlayParams ==
  { Obj([name |-> Str("id"), in |-> Str("path"), required |-> Bool(TRUE)]),
    Obj([name |-> Str("id"), in |-> Str("query"), description |-> Str("e")]),
    Param("new", "query") }

ParamLists(pool) == UNION { [1..n -> pool] : n \in 0..MaxLegacyParams }

LegacyBases ==
  { Obj([info |-> Obj([title |-> Str("Old"), version |-> Str("1")]),
         paths |-> Obj([q \in {"/p"} |->
                    Obj([get |-> Obj([summary |-> Str("List"),
                                     parameters |-> Arr(ps)])])])]) :
      ps \in ParamLists(BaseParams) }
  \cup { Obj([info |-> Obj([title |-> Str("Old"), version |-> Str("1")]),
              paths |-> Obj([q \in {"/p"} |->
                         Obj([get |-> Obj([summary |-> Str("List")])])])]),
         Obj([info |-> Obj([title |-> Str("Old"), version |-> Str("1")])]) }

\* overlays without the overlay property
LegacyOverlays ==
  { Obj([paths |-> Obj([q \in {"/p"} |->
                    Obj([get |-> Obj([parameters |-> Arr(ps)])])])]) :
      ps \in ParamLists(OverlayParams) }
  \cup { Obj([info |-> Obj([title |-> Str("New")]),
              paths |-> Obj([q \in {"/p", "/x"} |->
                         Obj([get |-> Obj([summary |-> Str("Changed")])])])]),
         Obj([info |-> Obj([title |-> Str("New")]),
              components |-> Obj([schemas |-> Obj([Pet |-> Obj(EmptyFn)])])]) }

InitLegacy ==
  /\ baseSpec \in LegacyBases
  /\ legacyOverlay \in LegacyOverlays
  /\ legacyResult = Undefined
  /\ legacyPc = "call"
  /\ ApplyIdle
  /\ CallerIdle
  /\ ValidateIdle
  /\ GpIdle
  /\ MapIdle
  /\ ExecIdle
  /\ CfgIdle

\* lines 13-181: applyOverlay(baseSpec, overlay)
LegacyApply ==
  /\ legacyPc = "call"
  /\ IF applyOverlayLegacyThrows(baseSpec, legacyOverlay)
       THEN legacyPc' = "thrown" /\ legacyResult' = legacyResult
       ELSE /\ legacyPc' = "done"
            /\ legacyResult' = applyOverlayLegacy(baseSpec, legacyOverlay)
  /\ UNCHANGED << baseSpec, legacyOverlay, applyVars, callerVars, validateVars, gpVars,
                  mapVars, execVars, cfgVars >>

NextLegacy == LegacyApply

SpecLegacy == InitLegacy /\ [][NextLegacy]_vars

\* ------------------------------------------------- getProcessedOpenApi

\* config.overlayPaths names at most this many files
MaxOverlays == 2

\* a file loadOverlay cannot read or parse, or whose extension it refuses
Unreadable == [t |-> "unreadable"]

\* lines 593-616: "" when loadOverlay returns the overlay, else the error
loadOverlay(file) ==
  IF file = Unreadable THEN "cannot load the overlay file"
  ELSE validateOverlay(file)

Formal(as) ==
  Doc(Str("1.0.0"), OverlayInfo, Arr(as), Undefined, Undefined, Undefined, Undefined)

OverlayFiles ==
  { Formal(<< Update(GetX, UParam) >>),
    Formal(<< Update(ParamsX \o << FName("new") >>, UObj) >>),
    Formal(<< Update(InfoX, UObj) >>),
    Formal(<< Update(ListX \o << BadFilter >>, UObj) >>),
    Formal(<< Update(InfoX, UObj),
              [hasTarget |-> FALSE, target |-> << >>, update |-> UObj,
               remove |-> Undefined] >>),
    Doc(Str("1.0.0"), Undefined, Arr(<< Update(InfoX, UObj) >>),
        Undefined, Undefined, Undefined, Undefined),
    Doc(Undefined, Obj([title |-> Str("New")]), Undefined,
        Undefined, Undefined, Undefined, Undefined),
    Null,
    Unreadable }

\* documents loadSpec returns
LoadedSpecs ==
  { WithKey(Petstore, "openapi", Str("3.0.0")),
    WithKey(Sparse, "openapi", Str("3.0.0")),
    WithKey(WithKey(Petstore, "openapi", Str("3.0.0")), "servers",
            Arr(<< Obj([url |-> Str("http://api")]) >>)) }

\* line 619 has returned
InitGp ==
  /\ baseApi \in LoadedSpecs
  /\ loadedSpec = baseApi
  /\ overlayFiles \in UNION { [1..n -> OverlayFiles] : n \in 0..MaxOverlays }
  /\ overlayIndex = 1
  /\ skipped = {}
  /\ targetApiBaseUrl \in BOOLEAN
  /\ gpc = "loop"
  /\ ApplyIdle
  /\ CallerIdle
  /\ StandaloneIdle

\* lines 625-632: the next overlay is loaded; when that fails the catch of
\* line 635 logs it and the loop goes on, else apply is called with the object
\* baseApi refers to
GpLoadOverlay ==
  /\ gpc = "loop"
  /\ overlayIndex <= Len(overlayFiles)
  /\ IF loadOverlay(overlayFiles[overlayIndex]) # ""
       THEN /\ skipped' = skipped \cup { overlayIndex }
            /\ overlayIndex' = overlayIndex + 1
            /\ UNCHANGED << gpc, applyVars >>
       ELSE /\ gpc' = "applying"
            /\ Enter(baseApi, overlayFiles[overlayIndex])
            /\ UNCHANGED << skipped, overlayIndex >>
  /\ UNCHANGED << baseApi, loadedSpec, overlayFiles, targetApiBaseUrl >>
  /\ UNCHANGED << callerVars, standaloneVars >>

\* a catch that throws the error on
GpAfterApplyFatal ==
  /\ gpc = "applying"
  /\ pc \in { "done", "thrown" }
  /\ baseApi' = IF pc = "done" THEN Deref(workingDoc) ELSE target
  /\ skipped' = skipped
  /\ overlayIndex' = IF pc = "done" THEN overlayIndex + 1 ELSE overlayIndex
  /\ gpc' = IF pc = "done" THEN "loop" ELSE "threw"
  /\ pc' = "idle"
  /\ UNCHANGED << target, target0, overlay, copy, workingDoc, i, prev, caught, error >>
  /\ UNCHANGED << loadedSpec, overlayFiles, targetApiBaseUrl >>
  /\ UNCHANGED << callerVars, standaloneVars >>

\* an assignment that is never made
GpAfterApplyResultDropped ==
  /\ gpc = "applying"
  /\ pc \in { "done", "thrown" }
  /\ baseApi' = target
  /\ skipped' = IF pc = "thrown" THEN skipped \cup { overlayIndex } ELSE skipped
  /\ overlayIndex' = overlayIndex + 1
  /\ gpc' = "loop"
  /\ pc' = "idle"
  /\ UNCHANGED << target, target0, overlay, copy, workingDoc, i, prev, caught, error >>
  /\ UNCHANGED << loadedSpec, overlayFiles, targetApiBaseUrl >>
  /\ UNCHANGED << callerVars, standaloneVars >>

\* lines 632-639: apply returned and baseApi is assigned the object returned,
\* or apply threw and the catch logs it; the loop goes on. The object that was
\* the target holds what apply left in it
GpAfterApply ==
  /\ gpc = "applying"
  /\ pc \in { "done", "thrown" }
  /\ baseApi' = IF pc = "done" THEN Deref(workingDoc) ELSE target
  /\ skipped' = IF pc = "thrown" THEN skipped \cup { overlayIndex } ELSE skipped
  /\ overlayIndex' = overlayIndex + 1
  /\ gpc' = "loop"
  /\ pc' = "idle"
  /\ UNCHANGED << target, target0, overlay, copy, workingDoc, i, prev, caught, error >>
  /\ UNCHANGED << loadedSpec, overlayFiles, targetApiBaseUrl >>
  /\ UNCHANGED << callerVars, standaloneVars >>

\* baseApi.servers is missing or empty
NoServers(api) ==
  LET servers == Member(api, Key("servers"))
  IN ~Truthy(servers) \/ (IsArray(servers) /\ Len(servers.a) = 0)

\* lines 644-654 after the loop
GpFinish ==
  /\ gpc = "loop"
  /\ overlayIndex > Len(overlayFiles)
  /\ gpc' = IF ~targetApiBaseUrl /\ NoServers(baseApi) THEN "threw" ELSE "returned"
  /\ UNCHANGED << baseApi, loadedSpec, overlayFiles, overlayIndex, skipped,
                  targetApiBaseUrl >>
  /\ UNCHANGED << applyVars, callerVars, standaloneVars >>

NextGp ==
  \/ GpLoadOverlay
  \/ ApplyCheckVersion
  \/ ApplyClone
  \/ ApplyLoop
  \/ ApplyReturn
  \/ GpAfterApply
  \/ GpFinish

SpecGp == InitGp /\ [][NextGp]_vars

\* ------------------------------------------------- mapOpenApiToMcpTools

\* Strings that are matched against patterns are sequences of pieces: "/" and
\* ":" are pieces of their own, "*" and "**" are the wildcards of a pattern,
\* and << >> is the empty string.

\* String.prototype.split('/'), as minimatch splits a string and a pattern
RECURSIVE SplitSlash(_)
SplitSlash(str) ==
  IF str = << >> THEN << << >> >>
  ELSE LET rest == SplitSlash(Tail(str))
       IN IF Head(str) = "/" THEN << << >> >> \o rest
          ELSE << << Head(str) >> \o Head(rest) >> \o Tail(rest)

\* one path portion against one pattern portion with "*" in it: "*" stands
\* for any run of characters of the portion
RECURSIVE GlobPortion(_, _)
GlobPortion(f, pat) ==
  IF pat = << >> THEN f = << >>
  ELSE IF Head(pat) = "*"
    THEN GlobPortion(f, Tail(pat)) \/ (f # << >> /\ GlobPortion(Tail(f), pat))
    ELSE f # << >> /\ Head(f) = Head(pat) /\ GlobPortion(Tail(f), Tail(pat))

\* a portion that is "*" alone needs a portion that is not empty
MatchPortion(f, pat) ==
  IF pat = << "*" >> THEN f # << >> ELSE GlobPortion(f, pat)

\* the portions of a string against those of a pattern; a portion "**"
\* stands for any number of portions
RECURSIVE MatchPortions(_, _)
MatchPortions(fs, pats) ==
  IF pats = << >> THEN fs = << >>
  ELSE IF Head(pats) = << "**" >>
    THEN MatchPortions(fs, Tail(pats)) \/ (fs # << >> /\ MatchPortions(Tail(fs), pats))
    ELSE /\ fs # << >>
         /\ MatchPortion(Head(fs), Head(pats))
         /\ MatchPortions(Tail(fs), Tail(pats))

\* minimatch(str, pattern) as lines 163, 167, 175 and 179 call it
minimatch(str, pattern) ==
  IF pattern = << >> THEN str = << >>
  ELSE MatchPortions(SplitSlash(str), SplitSlash(pattern))

\* the keys a path item has in the documents below
ItemKeys == { "get", "GET", "post", "parameters" }

toUpperCase ==
  [k \in ItemKeys |-> CASE k = "get" -> "GET"
                        [] k = "GET" -> "GET"
                        [] k = "post" -> "POST"
                        [] k = "parameters" -> "PARAMETERS"]

toLowerCase ==
  [k \in ItemKeys |-> CASE k = "get" -> "get"
                        [] k = "GET" -> "get"
                        [] k = "post" -> "post"
                        [] k = "parameters" -> "parameters"]

\* line 212
HttpMethods == { "get", "put", "post", "delete", "options", "head", "patch", "trace" }

\* line 157
urlPatternOf(path, method) == << toUpperCase[method], ":" >> \o path

\* the callback of lines 161-168 and 173-180, over the patterns of an array
SomePatternMatches(patterns, operationId, urlPattern) ==
  \E k \in 1..Len(patterns) :
     \/ operationId # << >> /\ minimatch(operationId, patterns[k])
     \/ minimatch(urlPattern, patterns[k])

\* lines 154-185; operationId is << >> when the operation has none (undefined
\* and the empty string are both falsy)
shouldIncludeOperation(operationId, path, method) ==
  LET urlPattern == urlPatternOf(path, method)
  IN IF ~whitelist.null
       THEN SomePatternMatches(whitelist.a, operationId, urlPattern)
       ELSE IF Len(blacklist) > 0
         THEN ~SomePatternMatches(blacklist, operationId, urlPattern)
         ELSE TRUE

\* an x-mcp extension: whether it is an object, and its name and its
\* description when they are strings that are not empty, else << >> and ""
XMcpD(isObject, name, description) ==
  [isObject |-> isObject, name |-> name, description |-> description]

\* an x-mcp extension without description
XMcp(isObject, name) == XMcpD(isObject, name, "")

NoXMcp == XMcp(FALSE, << >>)

\* one key of a path item and its value
\* with the operation's description and summary, "" when it has none
ItemD(key, isObject, operationId, xmcp, description, summary) ==
  [key |-> key, isObject |-> isObject, operationId |-> operationId, xmcp |-> xmcp,
   description |-> description, summary |-> summary]

\* an operation without description and summary
Item(key, isObject, operationId, xmcp) ==
  ItemD(key, isObject, operationId, xmcp, "", "")

\* a path item with its summary, "" when it has none
PathItemS(path, xmcp, summary, items) ==
  [path |-> path, xmcp |-> xmcp, summary |-> summary, items |-> items]

PathItem(path, xmcp, items) == PathItemS(path, xmcp, "", items)

Pets == << "/", "pets" >>

PetById == << "/", "pets", "/", "{petId}" >>

\* documents passed to mapOpenApiToMcpTools, the paths and the keys of each
\* path item in the order for...in visits them
OpenApiDocs ==
  { [hasPaths |-> FALSE, paths |-> << >>],
    [hasPaths |-> TRUE, paths |->
       << PathItem(Pets, NoXMcp,
            << Item("get", TRUE, << "list", "Pets" >>, NoXMcp),
               Item("post", TRUE, << "create", "Pet" >>, NoXMcp) >>),
          PathItem(PetById, NoXMcp,
            << Item("parameters", TRUE, << >>, NoXMcp),
               Item("get", TRUE, << "get", "Pet", "ById" >>, NoXMcp) >>) >>],
    [hasPaths |-> TRUE, paths |->
       << PathItem(Pets, NoXMcp,
            << Item("get", TRUE, << >>, NoXMcp),
               Item("post", TRUE, << "create", "Pet" >>,
                    XMcp(TRUE, << "add", "Pet" >>)) >>) >>],
    [hasPaths |-> TRUE, paths |->
       << PathItem(Pets, XMcp(TRUE, << "pets" >>),
            << Item("GET", TRUE, << "list", "Pets" >>, XMcp(TRUE, << >>)),
               Item("post", FALSE, << >>, NoXMcp) >>),
          PathItem(PetById, XMcp(TRUE, << "pet" >>),
            << Item("get", TRUE, << >>, XMcp(TRUE, << "the", "Pet" >>)) >>) >>],
    [hasPaths |-> TRUE, paths |->
       << PathItemS(Pets, XMcpD(TRUE, << "pets" >>, "path x-mcp"), "path summary",
            << ItemD("get", TRUE, << "list", "Pets" >>,
                     XMcpD(TRUE, << >>, "operation x-mcp"), "", "operation summary"),
               ItemD("post", TRUE, << "create", "Pet" >>,
                     XMcp(TRUE, << "add", "Pet" >>), "operation description",
                     "operation summary") >>),
          PathItemS(PetById, XMcpD(TRUE, << >>, "path x-mcp"), "path summary",
            << ItemD("get", TRUE, << "get", "Pet", "ById" >>, NoXMcp, "", "") >>) >>],
    [hasPaths |-> TRUE, paths |->
       << PathItemS(Pets, NoXMcp, "path summary",
            << ItemD("get", TRUE, << "list", "Pets" >>, NoXMcp, "", ""),
               ItemD("post", TRUE, << "create", "Pet" >>, NoXMcp,
                     "operation description", "operation summary") >>),
          PathItemS(PetById, XMcp(FALSE, << >>), "",
            << ItemD("get", TRUE, << "get", "Pet", "ById" >>, NoXMcp, "",
                     "operation summary") >>) >>] }

\* config.filter.whitelist and config.filter.blacklist hold at most this many
\* patterns
MaxPatterns == 1

Patterns ==
  { << "get", "*" >>,
    << "create", "Pet" >>,
    << "GET", ":", "/", "pets", "/", "*" >>,
    << "POST", ":", "/", "pets" >>,
    << "*" >>,
    << "**" >> }

PatternLists(least) == UNION { [1..n -> Patterns] : n \in least..MaxPatterns }

\* config.ts lines 218-219: null or the pieces of a string that is not empty,
\* and the pieces of a string or the empty array
InitMap ==
  /\ openapi \in OpenApiDocs
  /\ whitelist \in { [null |-> TRUE, a |-> << >>] }
                     \cup { [null |-> FALSE, a |-> l] : l \in PatternLists(1) }
  /\ blacklist \in PatternLists(0)
  /\ mappedTools = << >>
  /\ pathIndex = 1
  /\ methodIndex = 1
  /\ mpc = "call"
  /\ ApplyIdle
  /\ CallerIdle
  /\ LegacyIdle
  /\ ValidateIdle
  /\ GpIdle
  /\ ExecIdle
  /\ CfgIdle

\* lines 187-207
MapStart ==
  /\ mpc = "call"
  /\ mpc' = IF openapi.hasPaths THEN "loop" ELSE "returned"
  /\ UNCHANGED << openapi, whitelist, blacklist, mappedTools, pathIndex, methodIndex >>
  /\ UNCHANGED << applyVars, callerVars, legacyVars, validateVars, gpVars, execVars,
                  cfgVars >>

\* lines 240-262: the name, after the x-mcp extensions
toolNameOf(pathItem, operation) ==
  IF operation.xmcp.isObject
    THEN IF operation.xmcp.name # << >> THEN operation.xmcp.name
         ELSE operation.operationId
    ELSE IF pathItem.xmcp.isObject /\ pathItem.xmcp.name # << >>
      THEN pathItem.xmcp.name
      ELSE operation.operationId

\* a || b for strings
OrElse(a, b) == IF a # "" THEN a ELSE b

\* lines 264-277
toolDescriptionOf(pathItem, operation) ==
  LET toolDescription ==
        OrElse(operation.description,
               OrElse(operation.summary,
                      OrElse(pathItem.summary, "No description available.")))
  IN IF operation.xmcp.isObject
       THEN OrElse(operation.xmcp.description, toolDescription)
       ELSE IF pathItem.xmcp.isObject
         THEN OrElse(pathItem.xmcp.description, toolDescription)
         ELSE toolDescription

\* lines 415-425: the name and description of the tool, and what identifies it
Tool(name, description, path, method) ==
  [name |-> name, description |-> description, path |-> path,
   method |-> toUpperCase[method]]

\* lines 210-440: the body of the inner loop for one key of the path item,
\* giving the mappedTools it leaves
MapOperation(pathItem, operation) ==
  IF \/ toLowerCase[operation.key] \notin HttpMethods
     \/ ~operation.isObject
     \/ ~shouldIncludeOperation(operation.operationId, pathItem.path, operation.key)
     \/ operation.operationId = << >>
    THEN mappedTools
    ELSE Append(mappedTools,
                Tool(toolNameOf(pathItem, operation),
                     toolDescriptionOf(pathItem, operation),
                     pathItem.path, operation.key))

\* one turn of the inner loop of line 210
MapLoop ==
  /\ mpc = "loop"
  /\ pathIndex <= Len(openapi.paths)
  /\ methodIndex <= Len(openapi.paths[pathIndex].items)
  /\ mappedTools' = MapOperation(openapi.paths[pathIndex],
                                 openapi.paths[pathIndex].items[methodIndex])
  /\ methodIndex' = methodIndex + 1
  /\ UNCHANGED << openapi, whitelist, blacklist, pathIndex, mpc >>
  /\ UNCHANGED << applyVars, callerVars, legacyVars, validateVars, gpVars, execVars,
                  cfgVars >>

\* line 207: the next path
MapNextPath ==
  /\ mpc = "loop"
  /\ pathIndex <= Len(openapi.paths)
  /\ methodIndex > Len(openapi.paths[pathIndex].items)
  /\ pathIndex' = pathIndex + 1
  /\ methodIndex' = 1
  /\ UNCHANGED << openapi, whitelist, blacklist, mappedTools, mpc >>
  /\ UNCHANGED << applyVars, callerVars, legacyVars, validateVars, gpVars, execVars,
                  cfgVars >>

\* lines 443-444
MapReturn ==
  /\ mpc = "loop"
  /\ pathIndex > Len(openapi.paths)
  /\ mpc' = "returned"
  /\ UNCHANGED << openapi, whitelist, blacklist, mappedTools, pathIndex, methodIndex >>
  /\ UNCHANGED << applyVars, callerVars, legacyVars, validateVars, gpVars, execVars,
                  cfgVars >>

NextMap ==
  \/ MapStart
  \/ MapLoop
  \/ MapNextPath
  \/ MapReturn

SpecMap == InitMap /\ [][NextMap]_vars

\* ------------------------------------------------------------ applySecurity

(***************************************************************************)
(* apiClient.ts, lines 12-148. A request object is [method, url, params,   *)
(* headers, data]: params and headers are functions from names to values,  *)
(* and a value is the sequence of the pieces a template string joins. A    *)
(* security scheme is [type, in, name, scheme], "" for an absent field; a  *)
(* requirement is the sequence Object.keys gives of its scheme names.      *)
(***************************************************************************)

MaxRequirements == 2
MaxSchemes == 2

\* obj[k] = v on a params or headers object
SetEntry(obj, k, v) == [j \in DOMAIN obj \cup {k} |-> IF j = k THEN v ELSE obj[j]]

Scheme(type, in, name, scheme) ==
  [type |-> type, in |-> in, name |-> name, scheme |-> scheme]

\* the components.securitySchemes of the document
SecuritySchemes ==
  [n \in { "key", "keyq", "cookie", "bearer", "basic", "digest", "oauth", "xmcp" } |->
     CASE n = "key" -> Scheme("apiKey", "header", "X-API-Key", "")
       [] n = "keyq" -> Scheme("apiKey", "query", "api_key", "")
       [] n = "cookie" -> Scheme("apiKey", "cookie", "sid", "")
       [] n = "bearer" -> Scheme("http", "", "", "bearer")
       [] n = "basic" -> Scheme("http", "", "", "Basic")
       [] n = "digest" -> Scheme("http", "", "", "digest")
       [] n = "oauth" -> Scheme("oauth2", "", "", "")
       [] n = "xmcp" -> Scheme("apiKey", "header", "X-MCP", "")]

\* lines 84, 92: scheme.scheme?.toLowerCase(), "" for undefined
schemeToLowerCase ==
  [w \in { "", "bearer", "Basic", "digest" } |->
     CASE w = "Basic" -> "basic"
       [] OTHER -> w]

\* the credentials that hold a colon
HasColon(cred) == cred \in { "user:pw" }

\* lines 52, 77, 104, 117: config.securityCredentials?.[schemeName] || config.apiKey
CredentialFor(schemeName) ==
  IF schemeName \in DOMAIN securityCredentials /\ securityCredentials[schemeName] # ""
  THEN securityCredentials[schemeName]
  ELSE apiKey

\* lines 37-131: one scheme of a requirement, applied to the request rc
applyScheme(rc, schemeName) ==
  LET unsatisfied == [requestConfig |-> rc, satisfied |-> FALSE]
      done(c) == [requestConfig |-> c, satisfied |-> TRUE]
      cred == CredentialFor(schemeName)
      authorization(v) ==
        done([rc EXCEPT !.headers = SetEntry(rc.headers, "Authorization", v)])
  IN  IF schemeName \notin DOMAIN securitySchemes.m THEN unsatisfied
      ELSE LET scheme == securitySchemes.m[schemeName] IN
        CASE scheme.type = "apiKey" ->
               IF cred = "" THEN unsatisfied
               ELSE IF scheme.in = "header"
                 THEN done([rc EXCEPT !.headers =
                               SetEntry(rc.headers, scheme.name, << cred >>)])
               ELSE IF scheme.in = "query"
                 THEN done([rc EXCEPT !.params =
                               SetEntry(rc.params, scheme.name, << cred >>)])
               ELSE IF scheme.in = "cookie"
                 THEN LET cookieValue == << scheme.name, "=", cred >>
                          had == "Cookie" \in DOMAIN rc.headers
                                   /\ rc.headers["Cookie"] # << >>
                      IN  done([rc EXCEPT !.headers =
                                  SetEntry(rc.headers, "Cookie",
                                           IF had
                                           THEN rc.headers["Cookie"] \o << "; " >>
                                                  \o cookieValue
                                           ELSE cookieValue)])
               ELSE done(rc)
          [] scheme.type = "http" ->
               IF cred = "" THEN unsatisfied
               ELSE IF schemeToLowerCase[scheme.scheme] = "basic"
                 THEN authorization(
                        IF HasColon(cred) THEN << "Basic ", "base64", cred >>
                        ELSE << "Basic ", "base64", cred, ":password" >>)
               ELSE IF schemeToLowerCase[scheme.scheme] = "bearer"
                 THEN authorization(<< "Bearer ", cred >>)
               ELSE unsatisfied
          [] scheme.type \in { "oauth2", "openIdConnect" } ->
               IF cred = "" THEN unsatisfied
               ELSE authorization(<< "Bearer ", cred >>)
          [] OTHER -> unsatisfied

\* the request executeApiCall hands over when nothing but X-MCP is on it
PlainRequest ==
  [method |-> "GET", url |-> << "http://api", "/pets" >>, params |-> << >>,
   headers |-> [h \in { "X-MCP" } |-> << "1" >>], data |-> Undefined]

\* the sequences over S of length at most n
SeqsUpTo(S, n) == UNION { [1..k -> S] : k \in 0..n }

SchemeNames == { "key", "keyq", "cookie", "bearer", "ghost" }

\* config.securityCredentials and config.apiKey
Credentials ==
  { [securityCredentials |-> << >>, apiKey |-> "k0"],
    [securityCredentials |-> [n \in { "key" } |-> "k1"], apiKey |-> ""],
    [securityCredentials |-> << >>, apiKey |-> ""] }

InitSec ==
  /\ \E c \in Credentials :
       /\ securityCredentials = c.securityCredentials
       /\ apiKey = c.apiKey
  /\ requestConfig = PlainRequest
  /\ requestConfig0 = PlainRequest
  /\ \/ /\ securityRequirements = [null |-> TRUE, a |-> << >>]
        /\ securitySchemes = [defined |-> TRUE, m |-> SecuritySchemes]
     \/ /\ \E reqs \in SeqsUpTo(SeqsUpTo(SchemeNames, MaxSchemes), MaxRequirements) :
             securityRequirements = [null |-> FALSE, a |-> reqs]
        /\ \E defined \in BOOLEAN :
             securitySchemes =
               [defined |-> defined, m |-> IF defined THEN SecuritySchemes ELSE << >>]
  /\ requirementIndex = 1
  /\ schemeIndex = 1
  /\ allSchemesSatisfied = TRUE
  /\ spc = "call"
  /\ CallIdle
  /\ ApplyIdle
  /\ CallerIdle
  /\ LegacyIdle
  /\ ValidateIdle
  /\ GpIdle
  /\ MapIdle
  /\ CfgIdle

\* what no step of applySecurity changes
SecFrame ==
  UNCHANGED << securityCredentials, apiKey, requestConfig0, securityRequirements,
               securitySchemes, callVars, applyVars, callerVars, legacyVars,
               validateVars, gpVars, mapVars, cfgVars >>

\* lines 17-25: nothing to do without requirements or without schemes
SecStart ==
  /\ spc = "call"
  /\ spc' = IF \/ securityRequirements.null
               \/ Len(securityRequirements.a) = 0
               \/ ~securitySchemes.defined
            THEN "returned" ELSE "loop"
  /\ requirementIndex' = 1
  /\ schemeIndex' = 1
  /\ allSchemesSatisfied' = TRUE
  /\ UNCHANGED requestConfig
  /\ SecFrame

\* lines 33-136: the next scheme of the requirement at hand
SecScheme ==
  /\ spc = "loop"
  /\ requirementIndex <= Len(securityRequirements.a)
  /\ allSchemesSatisfied
  /\ schemeIndex <= Len(securityRequirements.a[requirementIndex])
  /\ LET r == applyScheme(requestConfig,
                          securityRequirements.a[requirementIndex][schemeIndex])
     IN  /\ requestConfig' = r.requestConfig
         /\ allSchemesSatisfied' = r.satisfied
         /\ schemeIndex' = IF r.satisfied THEN schemeIndex + 1 ELSE schemeIndex
  /\ UNCHANGED << requirementIndex, spc >>
  /\ SecFrame

\* lines 138-142: return when every scheme of the requirement was applied,
\* go on with the next requirement otherwise
SecRequirementEnd ==
  /\ spc = "loop"
  /\ requirementIndex <= Len(securityRequirements.a)
  /\ \/ ~allSchemesSatisfied
     \/ schemeIndex > Len(securityRequirements.a[requirementIndex])
  /\ IF allSchemesSatisfied
     THEN /\ spc' = "returned"
          /\ UNCHANGED << requirementIndex, schemeIndex, allSchemesSatisfied >>
     ELSE /\ requirementIndex' = requirementIndex + 1
          /\ schemeIndex' = 1
          /\ allSchemesSatisfied' = TRUE
          /\ UNCHANGED spc
  /\ UNCHANGED requestConfig
  /\ SecFrame

\* lines 144-148: no requirement could be satisfied
SecGiveUp ==
  /\ spc = "loop"
  /\ requirementIndex > Len(securityRequirements.a)
  /\ spc' = "returned"
  /\ UNCHANGED << requestConfig, requirementIndex, schemeIndex, allSchemesSatisfied >>
  /\ SecFrame

NextSec ==
  \/ SecStart
  \/ SecScheme
  \/ SecRequirementEnd
  \/ SecGiveUp

SpecSec == InitSec /\ [][NextSec]_vars

\* ----------------------------------------------------------- executeApiCall

(***************************************************************************)
(* apiClient.ts, lines 150-319, with validateParameterValue (327-408) and  *)
(* validateRequestBody (416-452). The call details are [method,            *)
(* pathTemplate, serverUrl, parameters, requestBody, securityRequirements, *)
(* securitySchemes]: "" stands for an absent string, the path template is  *)
(* the sequence of its pieces, a placeholder {name} being one piece. A     *)
(* parameter is [name, in, required, schema], a schema [defined, type,     *)
(* hasMinimum, minimum, hasMaximum, maximum, hasEnum, enum]; the schemas   *)
(* here have no minLength, maxLength, pattern, format, minItems or         *)
(* maxItems, and every number is an integer. The MCP input is a JSON       *)
(* value; query parameters hold JSON values, headers hold strings in       *)
(* pieces.                                                                 *)
(***************************************************************************)

MaxParams == 2

\* String(v), for the values of this model
StringOf(v) ==
  CASE v.t = "str" -> v.s
    [] v.t = "num" -> << "0", "1", "2", "3", "4", "5" >>[v.n + 1]
    [] v.t = "bool" -> IF v.b THEN "true" ELSE "false"
    [] v.t = "null" -> "null"
    [] v.t = "undef" -> "undefined"
    [] v.t = "arr" -> ""
    [] v.t = "obj" -> "[object Object]"

\* encodeURIComponent(w), for the strings of this model
encodeURIComponent(w) == IF w = "a/b" THEN "a%2Fb" ELSE w

\* typeof v
TypeOf(v) ==
  CASE v.t = "str" -> "string"
    [] v.t = "num" -> "number"
    [] v.t = "bool" -> "boolean"
    [] v.t = "undef" -> "undefined"
    [] OTHER -> "object"

NoSchema ==
  [defined |-> FALSE, type |-> "", hasMinimum |-> FALSE, minimum |-> 0,
   hasMaximum |-> FALSE, maximum |-> 0, hasEnum |-> FALSE, enum |-> { }]

\* lines 327-408: TRUE when validateParameterValue returns an error message
validateParameterValue(value, paramDef) ==
  LET schema == paramDef.schema IN
  IF ~schema.defined THEN FALSE
  ELSE
    \/ /\ schema.type \in { "integer", "number" }
       /\ \/ TypeOf(value) # "number"
          \/ schema.hasMinimum /\ value.n < schema.minimum
          \/ schema.hasMaximum /\ value.n > schema.maximum
    \/ schema.type = "string" /\ TypeOf(value) # "string"
    \/ schema.type = "boolean" /\ TypeOf(value) # "boolean"
    \/ schema.type = "array" /\ ~IsArray(value)
    \/ schema.hasEnum /\ value \notin schema.enum

\* a request body definition: required, and the schema of its
\* application/json content, type "" when it has none
BodyDef(required, type, requiredProps) ==
  [defined |-> TRUE, required |-> required, type |-> type,
   requiredProps |-> requiredProps]

NoBodyDef == [defined |-> FALSE, required |-> FALSE, type |-> "", requiredProps |-> { }]

\* lines 416-452: TRUE when validateRequestBody returns an error message
validateRequestBody(b, requestBodyDef) ==
  \/ /\ requestBodyDef.type = "object"
     /\ \/ b.t # "obj"
        \/ \E prop \in requestBodyDef.requiredProps : Member(b, Key(prop)) = Undefined
  \/ requestBodyDef.type = "array" /\ ~IsArray(b)

\* url.replace(piece, by): the first occurrence only
RECURSIVE ReplaceFirst(_, _, _)
ReplaceFirst(pieces, piece, by) ==
  IF pieces = << >> THEN << >>
  ELSE IF Head(pieces) = piece THEN << by >> \o Tail(pieces)
       ELSE << Head(pieces) >> \o ReplaceFirst(Tail(pieces), piece, by)

\* { ...a, ...b } on headers
SpreadEntries(a, b) ==
  [k \in DOMAIN a \cup DOMAIN b |-> IF k \in DOMAIN b THEN b[k] ELSE a[k]]

Status400 == [success |-> FALSE, statusCode |-> 400]

\* ------------------------------------------------ the inputs of executeApiCall

ParamDef(name, in, required, schema) ==
  [name |-> name, in |-> in, required |-> required, schema |-> schema]

IdParam ==
  ParamDef("id", "path", TRUE,
           [NoSchema EXCEPT !.defined = TRUE, !.type = "integer",
                            !.hasMinimum = TRUE, !.minimum = 1])

TagParam ==
  ParamDef("tag", "query", FALSE,
           [NoSchema EXCEPT !.defined = TRUE, !.type = "string",
                            !.hasEnum = TRUE, !.enum = { Str("a"), Str("a/b") }])

TraceParam == ParamDef("X-Trace", "header", FALSE, NoSchema)

SessionParam == ParamDef("session", "cookie", TRUE, NoSchema)

ParamDefs == { IdParam, TagParam, TraceParam, SessionParam }

BodyDefs == { NoBodyDef, BodyDef(TRUE, "object", { "name" }), BodyDef(FALSE, "", { }) }

\* details.securityRequirements
RequirementLists ==
  { [null |-> TRUE, a |-> << >>],
    [null |-> FALSE, a |-> << << "bearer" >> >>],
    [null |-> FALSE, a |-> << << "key", "ghost" >>, << "digest" >> >>],
    [null |-> FALSE, a |-> << << "xmcp" >> >>] }

Details(method, pathTemplate, serverUrl, parameters, requestBody, requirements) ==
  [method |-> method, pathTemplate |-> pathTemplate, serverUrl |-> serverUrl,
   parameters |-> parameters, requestBody |-> requestBody,
   securityRequirements |-> requirements,
   securitySchemes |-> [defined |-> TRUE, m |-> SecuritySchemes]]

InputObj(id, tag, trace, session, requestBody) ==
  Obj([k \in { e[1] : e \in { e \in { << "id", id >>, << "tag", tag >>,
                                       << "X-Trace", trace >>, << "session", session >>,
                                       << "requestBody", requestBody >> } :
                                e[2] # Undefined } } |->
         CASE k = "id" -> id
           [] k = "tag" -> tag
           [] k = "X-Trace" -> trace
           [] k = "session" -> session
           [] k = "requestBody" -> requestBody])

\* the MCP inputs that are objects
InputObjects ==
  { InputObj(Undefined, Undefined, Undefined, Undefined, Undefined),
    InputObj(Num(5), Undefined, Undefined, Str("s"), Undefined),
    InputObj(Num(0), Undefined, Undefined, Str("s"), Undefined),
    InputObj(Str("5"), Str("a"), Undefined, Str("s"), Undefined),
    InputObj(Num(5), Str("a/b"), Num(2), Str("s"),
             Obj([k \in { "name" } |-> Str("n")])),
    InputObj(Num(5), Str("z"), Undefined, Undefined, Obj(EmptyFn)),
    InputObj(Num(5), Null, Str("t"), Undefined, Arr(<< >>)),
    InputObj(Undefined, Str("a"), Str("t"), Str("s"), Obj(EmptyFn)) }

\* the MCP inputs that are not
InputOthers == { Undefined, Null, Arr(<< >>), Str("string"), Num(0), Bool(TRUE) }

\* config.customHeaders
CustomHeaderSets ==
  { << >>,
    [h \in { "X-Test-Header" } |-> << "test-value" >>],
    [h \in { "X-MCP" } |-> << "2" >>],
    [h \in { "Authorization", "X-Trace" } |-> << "Token t" >>] }

InitExec ==
  /\ \/ /\ \E method \in { "", "GET" }, pathTemplate \in { << >>, << "/pets" >> },
              serverUrl \in { "", "http://api" }, defs \in SeqsUpTo(ParamDefs, 1) :
              details = Details(method, pathTemplate, serverUrl, defs, NoBodyDef,
                                [null |-> TRUE, a |-> << >>])
        /\ mcpInput \in InputObjects \cup InputOthers
        /\ customHeaders = << >>
        /\ disableXMcp = FALSE
        /\ securityCredentials = << >>
        /\ apiKey = ""
     \/ /\ \E defs \in SeqsUpTo(ParamDefs, MaxParams), requestBody \in BodyDefs,
              requirements \in RequirementLists :
              details = Details("GET", << "/pets/", "{id}", "/", "{id}" >>, "http://api",
                                defs, requestBody, requirements)
        /\ mcpInput \in InputObjects
        /\ customHeaders \in CustomHeaderSets
        /\ disableXMcp \in BOOLEAN
        /\ securityCredentials = << >>
        /\ apiKey \in { "", "k0" }
  /\ url = << >>
  /\ queryParams = << >>
  /\ headers = << >>
  /\ body = Undefined
  /\ paramIndex = 1
  /\ result = NoResult
  /\ requests = << >>
  /\ epc = "call"
  /\ requestConfig = NoRequest
  /\ requestConfig0 = NoRequest
  /\ securityRequirements = [null |-> TRUE, a |-> << >>]
  /\ securitySchemes = [defined |-> FALSE, m |-> << >>]
  /\ requirementIndex = 1
  /\ schemeIndex = 1
  /\ allSchemesSatisfied = TRUE
  /\ spc = "idle"
  /\ ApplyIdle
  /\ CallerIdle
  /\ LegacyIdle
  /\ ValidateIdle
  /\ GpIdle
  /\ MapIdle
  /\ CfgIdle

\* what no step of executeApiCall outside applySecurity changes
ExecFrame ==
  UNCHANGED << details, mcpInput, customHeaders, disableXMcp, securityCredentials, apiKey,
               requirementIndex, schemeIndex, allSchemesSatisfied, applyVars, callerVars,
               legacyVars, validateVars, gpVars, mapVars, cfgVars >>

\* return { success: false, statusCode: 400, ... }
Return400 ==
  /\ result' = Status400
  /\ epc' = "returned"

\* lines 156-186: the checks of the details and of the input, the locals
ExecValidate ==
  /\ epc = "call"
  /\ IF \/ details.method = ""
        \/ details.pathTemplate = << >>
        \/ details.serverUrl = ""
        \/ ~Truthy(mcpInput)
        \/ TypeOf(mcpInput) # "object"
        \/ IsArray(mcpInput)
     THEN /\ Return400
          /\ UNCHANGED url
     ELSE /\ url' = << details.serverUrl >> \o details.pathTemplate
          /\ epc' = "params"
          /\ UNCHANGED result
  /\ queryParams' = << >>
  /\ headers' = << >>
  /\ body' = Undefined
  /\ paramIndex' = 1
  /\ UNCHANGED << requests, requestConfig, requestConfig0, securityRequirements,
                  securitySchemes, spc >>
  /\ ExecFrame

\* lines 189-221 with the parameter check left out: a failed check and a
\* missing required parameter do not end the call
ExecParamUnchecked ==
  /\ epc = "params"
  /\ paramIndex <= Len(details.parameters)
  /\ LET paramDef == details.parameters[paramIndex]
         paramName == paramDef.name
         paramValue == Member(mcpInput, Key(paramName))
     IN  /\ url' = IF paramValue # Undefined /\ paramDef.in = "path"
                   THEN ReplaceFirst(url, "{" \o paramName \o "}",
                                     encodeURIComponent(StringOf(paramValue)))
                   ELSE url
         /\ queryParams' = IF paramValue # Undefined /\ paramDef.in = "query"
                           THEN SetEntry(queryParams, paramName, paramValue)
                           ELSE queryParams
         /\ headers' = IF paramValue # Undefined /\ paramDef.in = "header"
                       THEN SetEntry(headers, paramName, << StringOf(paramValue) >>)
                       ELSE headers
         /\ paramIndex' = paramIndex + 1
         /\ UNCHANGED << result, epc >>
  /\ UNCHANGED << body, requests, requestConfig, requestConfig0, securityRequirements,
                  securitySchemes, spc >>
  /\ ExecFrame

\* lines 189-221: one parameter definition
ExecParam ==
  /\ epc = "params"
  /\ paramIndex <= Len(details.parameters)
  /\ LET paramDef == details.parameters[paramIndex]
         paramName == paramDef.name
         paramValue == Member(mcpInput, Key(paramName))
     IN  IF paramValue # Undefined
         THEN IF validateParameterValue(paramValue, paramDef)
              THEN /\ Return400
                   /\ UNCHANGED << url, queryParams, headers, paramIndex >>
              ELSE /\ url' = IF paramDef.in = "path"
                             THEN ReplaceFirst(url, "{" \o paramName \o "}",
                                               encodeURIComponent(StringOf(paramValue)))
                             ELSE url
                   /\ queryParams' = IF paramDef.in = "query"
                                     THEN SetEntry(queryParams, paramName, paramValue)
                                     ELSE queryParams
                   /\ headers' = IF paramDef.in = "header"
                                 THEN SetEntry(headers, paramName,
                                               << StringOf(paramValue) >>)
                                 ELSE headers
                   /\ paramIndex' = paramIndex + 1
                   /\ UNCHANGED << result, epc >>
         ELSE IF paramDef.required
              THEN /\ Return400
                   /\ UNCHANGED << url, queryParams, headers, paramIndex >>
              ELSE /\ paramIndex' = paramIndex + 1
                   /\ UNCHANGED << url, queryParams, headers, result, epc >>
  /\ UNCHANGED << body, requests, requestConfig, requestConfig0, securityRequirements,
                  securitySchemes, spc >>
  /\ ExecFrame

\* lines 224-238: the request body
ExecBody ==
  /\ epc = "params"
  /\ paramIndex > Len(details.parameters)
  /\ LET requestBody == details.requestBody
         given == Member(mcpInput, Key("requestBody"))
     IN  IF requestBody.defined /\ given # Undefined
         THEN IF validateRequestBody(given, requestBody)
              THEN /\ Return400
                   /\ UNCHANGED << body, headers >>
              ELSE /\ body' = given
                   /\ headers' = SetEntry(headers, "Content-Type",
                                          << "application/json" >>)
                   /\ epc' = "headers"
                   /\ UNCHANGED result
         ELSE IF requestBody.defined /\ requestBody.required
              THEN /\ Return400
                   /\ UNCHANGED << body, headers >>
              ELSE /\ epc' = "headers"
                   /\ UNCHANGED << body, headers, result >>
  /\ UNCHANGED << url, queryParams, paramIndex, requests, requestConfig, requestConfig0,
                  securityRequirements, securitySchemes, spc >>
  /\ ExecFrame

\* lines 241-263: the request object, the custom headers, X-MCP, and the
\* call of applySecurity
ExecHeaders ==
  /\ epc = "headers"
  /\ LET withCustom == IF DOMAIN customHeaders # { }
                       THEN SpreadEntries(headers, customHeaders)
                       ELSE headers
         withXMcp == IF ~disableXMcp
                     THEN SpreadEntries(withCustom, [h \in { "X-MCP" } |-> << "1" >>])
                     ELSE withCustom
         built == [method |-> details.method, url |-> url, params |-> queryParams,
                   headers |-> withXMcp, data |-> body]
     IN  /\ requestConfig' = built
         /\ requestConfig0' = built
  /\ securityRequirements' = details.securityRequirements
  /\ securitySchemes' = details.securitySchemes
  /\ spc' = "call"
  /\ epc' = "security"
  /\ UNCHANGED << url, queryParams, headers, body, paramIndex, result, requests >>
  /\ ExecFrame

\* what the server may answer: a status, or 0 for no response at all
Responses == { 200, 404, 500, 0 }

\* lines 277-318: the request, and the result made of its outcome
ExecSend ==
  /\ epc = "security"
  /\ spc = "returned"
  /\ requests' = Append(requests, requestConfig)
  /\ \E status \in Responses :
       result' = IF status = 0 THEN [success |-> FALSE, statusCode |-> 503]
                 ELSE [success |-> status >= 200 /\ status < 300, statusCode |-> status]
  /\ epc' = "returned"
  /\ UNCHANGED << url, queryParams, headers, body, paramIndex, requestConfig,
                  requestConfig0, securityRequirements, securitySchemes, spc >>
  /\ ExecFrame

NextExec ==
  \/ ExecValidate
  \/ ExecParam
  \/ ExecBody
  \/ ExecHeaders
  \/ SecStart
  \/ SecScheme
  \/ SecRequirementEnd
  \/ SecGiveUp
  \/ ExecSend

SpecExec == InitExec /\ [][NextExec]_vars

\* ------------------------------------------------------- the configuration

(***************************************************************************)
(* The module that builds the exported config, in its two versions:        *)
(* config.ts (lines 97-221), where the defaults of the yargs options are   *)
(* made of the JSON file and the environment, and the version of           *)
(* apiClient.ts, lines 754-942, with getValueWithPriority. An optional     *)
(* value is [set, v], set FALSE for undefined. Of the eleven settings,     *)
(* targetUrl stands for the seven string settings, which the code treats   *)
(* alike (spec, overlays, targetUrl, whitelist, blacklist, apiKey,         *)
(* securitySchemeName); port, disableXMcp and securityCredentials have     *)
(* code of their own. An absent string of the result is "".                *)
(***************************************************************************)

Some(v) == [set |-> TRUE, v |-> v]
NoString == [set |-> FALSE, v |-> ""]
NoNumber == [set |-> FALSE, v |-> 0]
NoBoolean == [set |-> FALSE, v |-> FALSE]

\* parseInt(w, 10), for the numerals of this model
parseInt(w) ==
  CASE w = "8080" -> 8080
    [] w = "9001" -> 9001
    [] w = "9002" -> 9002

\* the credentials objects of this model and their JSON texts
CredentialsBy(source) == [n \in { "ApiKeyAuth" } |-> source]

\* JSON.stringify of a credentials object
JSONStringify(obj) ==
  CASE obj = CredentialsBy("cli") -> "{\"ApiKeyAuth\":\"cli\"}"
    [] obj = CredentialsBy("env") -> "{\"ApiKeyAuth\":\"env\"}"
    [] obj = CredentialsBy("file") -> "{\"ApiKeyAuth\":\"file\"}"

\* JSON.parse of these texts
JSONParse(text) ==
  CASE text = "{\"ApiKeyAuth\":\"cli\"}" -> CredentialsBy("cli")
    [] text = "{\"ApiKeyAuth\":\"env\"}" -> CredentialsBy("env")
    [] text = "{\"ApiKeyAuth\":\"file\"}" -> CredentialsBy("file")

\* the option value yargs gives: the one of the command line, else the default
Option(given, default) == IF given.set THEN given ELSE default

\* a || b on optional strings
OrString(a, b) == IF a.set /\ a.v # "" THEN a ELSE b

\* a || b on optional numbers
OrNumber(a, b) == IF a.set /\ a.v # 0 THEN a ELSE b

InitConfig ==
  /\ \E targetUrl \in { NoString, Some("http://cli") },
        port \in { NoNumber, Some(9000) },
        disable \in { NoBoolean, Some(TRUE), Some(FALSE) },
        credentials \in { NoString, Some(JSONStringify(CredentialsBy("cli"))) } :
       argv = [targetUrl |-> targetUrl, port |-> port, disableXMcp |-> disable,
               securityCredentials |-> credentials]
  /\ \E targetUrl \in { NoString, Some("http://env") },
        port \in { NoString, Some("9001") },
        disable \in { NoString, Some("true"), Some("false") },
        credentials \in { NoString, Some(JSONStringify(CredentialsBy("env"))) } :
       processEnv = [TARGET_API_BASE_URL |-> targetUrl, MCP_SERVER_PORT |-> port,
                     DISABLE_X_MCP |-> disable, SECURITY_CREDENTIALS |-> credentials]
  /\ \E targetUrl \in { NoString, Some("http://file") },
        port \in { NoNumber, Some(9002) },
        disable \in { NoBoolean, Some(TRUE), Some(FALSE) },
        credentials \in { [set |-> FALSE, v |-> << >>], Some(CredentialsBy("file")) } :
       jsonConfig = [targetUrl |-> targetUrl, port |-> port, disableXMcp |-> disable,
                     securityCredentials |-> credentials]
  /\ config = << >>
  /\ cpc = "start"
  /\ ExecIdle
  /\ ApplyIdle
  /\ CallerIdle
  /\ LegacyIdle
  /\ ValidateIdle
  /\ GpIdle
  /\ MapIdle

\* what loading the configuration leaves alone
ConfigFrame ==
  UNCHANGED << argv, processEnv, jsonConfig, execVars, applyVars, callerVars, legacyVars,
               validateVars, gpVars, mapVars >>

\* config.ts, lines 97-221
LoadConfig ==
  /\ cpc = "start"
  /\ LET targetUrl == Option(argv.targetUrl,
                             OrString(jsonConfig.targetUrl, processEnv.TARGET_API_BASE_URL))
         port == Option(argv.port,
                        OrNumber(jsonConfig.port,
                                 Some(parseInt(OrString(processEnv.MCP_SERVER_PORT,
                                                        Some("8080")).v))))
         disable == Option(argv.disableXMcp,
                           IF jsonConfig.disableXMcp.set THEN jsonConfig.disableXMcp
                           ELSE Some(processEnv.DISABLE_X_MCP = Some("true")))
         credentials == Option(argv.securityCredentials,
                               IF jsonConfig.securityCredentials.set
                               THEN Some(JSONStringify(jsonConfig.securityCredentials.v))
                               ELSE processEnv.SECURITY_CREDENTIALS)
     IN  config' =
           [targetApiBaseUrl |-> targetUrl.v,
            mcpPort |-> port.v,
            disableXMcp |-> disable.v,
            securityCredentials |->
              IF credentials.set THEN JSONParse(credentials.v) ELSE << >>]
  /\ cpc' = "config.ts"
  /\ ConfigFrame

\* apiClient.ts, lines 815-820
getValueWithPriority(cliValue, envValue, configValue, defaultValue) ==
  IF cliValue.set THEN cliValue.v
  ELSE IF envValue.set THEN envValue.v
  ELSE IF configValue.set THEN configValue.v
  ELSE defaultValue

\* apiClient.ts, lines 823-835
envValues ==
  [port |-> IF processEnv.MCP_SERVER_PORT.set
            THEN Some(parseInt(processEnv.MCP_SERVER_PORT.v)) ELSE NoNumber,
   targetUrl |-> processEnv.TARGET_API_BASE_URL,
   securityCredentials |-> processEnv.SECURITY_CREDENTIALS,
   disableXMcp |-> Some(processEnv.DISABLE_X_MCP = Some("true"))]

\* apiClient.ts, lines 837-942
LoadConfigWithPriority ==
  /\ cpc = "start"
  /\ config' =
       [targetApiBaseUrl |->
          getValueWithPriority(argv.targetUrl, envValues.targetUrl,
                               jsonConfig.targetUrl, ""),
        mcpPort |->
          getValueWithPriority(argv.port, envValues.port, jsonConfig.port, 8080),
        disableXMcp |->
          IF argv.disableXMcp.set THEN argv.disableXMcp.v
          ELSE IF envValues.disableXMcp.set THEN envValues.disableXMcp.v
          ELSE IF jsonConfig.disableXMcp.set THEN jsonConfig.disableXMcp.v
          ELSE FALSE,
        securityCredentials |->
          IF argv.securityCredentials.set
          THEN JSONParse(argv.securityCredentials.v)
          ELSE IF envValues.securityCredentials.set
          THEN JSONParse(envValues.securityCredentials.v)
          ELSE IF jsonConfig.securityCredentials.set
          THEN jsonConfig.securityCredentials.v
          ELSE << >>]
  /\ cpc' = "apiClient.ts"
  /\ ConfigFrame

NextConfig ==
  \/ LoadConfig
  \/ LoadConfigWithPriority

SpecConfig == InitConfig /\ [][NextConfig]_vars

\* ------------------------------------------------------------ the claims

\* the working document
Working == Deref(workingDoc)

\* at least one applyAction call has returned; LastAction is the latest one's
\* action, prev the document it received, Working the one it returned
Ran == i > 1

LastAction == overlay.actions.a[i - 1]

\* the latest call evaluated its query without an exception
LastQueried == Ran /\ ~JSONPathThrows(LastAction.target, prev)

LastMatches == JSONPath(LastAction.target, prev)

IsScalar(x) == x.t \in {"str", "num", "bool", "null"}

\* C1: apply never mutates the caller's target document: whatever apply has
\* done so far, returned or thrown, the caller's object holds what it held at
\* the call, and the working document is another object.
C1_TargetNeverMutated == target = target0 /\ workingDoc # "target"

\* apply returned a document that differs from the target it was given
C1_Witness == pc = "done" /\ Working # target0 /\ target = target0

RECURSIVE ApplySeq(_, _, _)
\* the first n actions applied one after the other, each to the result of
\* the one before
ApplySeq(doc, actions, n) ==
  IF n = 0 THEN doc
  ELSE applyAction(ApplySeq(doc, actions, n - 1), actions[n]).doc

\* C2: apply processes the actions in array order, each against the document
\* all earlier actions produced: once the loop has passed i - 1 actions, the
\* working document is the first i - 1 actions applied in order to the
\* target, and the latest action received the first i - 2 applied in order.
C2_ActionsInOrder ==
  (workingDoc # "none" /\ overlay.actions # Undefined) =>
     /\ i - 1 <= Len(overlay.actions.a)
     /\ Working = ApplySeq(target0, overlay.actions.a, i - 1)
     /\ Ran => prev = ApplySeq(target0, overlay.actions.a, i - 2)

\* the latest action matched nothing in the target, matched in the document
\* the earlier action left, and changed it
C2_Witness ==
  /\ LastQueried
  /\ JSONPath(LastAction.target, target0) = <<>>
  /\ LastMatches # <<>>
  /\ Working # prev

ZeroMatch(doc, action) ==
  /\ action.hasTarget
  /\ ~JSONPathThrows(action.target, doc)
  /\ JSONPath(action.target, doc) = <<>>

\* C3: an action whose target matches zero nodes is a no-op that throws
\* nothing and logs nothing, whether it updates or removes; and an overlay
\* all of whose actions match nothing in the target returns the target's
\* value.
C3_ZeroMatchNoOp ==
  /\ (LastQueried /\ LastMatches = <<>>) =>
        (Working = prev /\ (i - 1) \notin caught)
  /\ (pc = "thrown" /\ error = "action missing target") =>
        ~ZeroMatch(Working, overlay.actions.a[i])
  /\ ( /\ pc \in {"done", "thrown"}
       /\ overlay.overlay # Undefined
       /\ overlay.actions # Undefined
       /\ \A n \in 1..Len(overlay.actions.a) :
             ZeroMatch(target0, overlay.actions.a[n]) ) =>
        (pc = "done" /\ Working = target0)

\* apply returned from an overlay of an update and a remove that both match
\* nothing
C3_Witness ==
  /\ pc = "done"
  /\ Len(overlay.actions.a) >= 2
  /\ \A n \in 1..Len(overlay.actions.a) : ZeroMatch(target0, overlay.actions.a[n])
  /\ \E n \in 1..Len(overlay.actions.a) : overlay.actions.a[n].remove = Bool(TRUE)
  /\ \E n \in 1..Len(overlay.actions.a) : overlay.actions.a[n].update # Undefined

RECURSIVE DeleteAll(_, _)
\* `doc` without the nodes at `matches`, the last one deleted first so that
\* no deletion moves a node still to delete
DeleteAll(doc, matches) ==
  IF matches = <<>> THEN doc
  ELSE LET m == matches[Len(matches)]
       IN DeleteAll(RemoveMember(doc, SubSeq(m, 1, Len(m) - 1), m[Len(m)]),
                    SubSeq(matches, 1, Len(matches) - 1))

\* C4: after a remove action whose target matches one node or more, every
\* matched node is gone from its parent and every other member is still
\* there, in its order.
C4_RemoveDeletesMatches ==
  (LastQueried /\ LastAction.remove = Bool(TRUE) /\ LastMatches # <<>>) =>
     Working = DeleteAll(prev, LastMatches)

RECURSIVE MergeOf(_, _)
\* the deep merge of two objects as the claim words it
MergeOf(base, upd) ==
  Obj([k \in DOMAIN base.o \cup DOMAIN upd.o |->
         IF k \notin DOMAIN upd.o THEN base.o[k]
         ELSE IF k \notin DOMAIN base.o THEN upd.o[k]
         ELSE IF base.o[k].t = "obj" /\ upd.o[k].t = "obj"
                THEN MergeOf(base.o[k], upd.o[k])
         ELSE IF base.o[k].t = "arr" /\ upd.o[k].t = "arr"
                THEN Arr(base.o[k].a \o upd.o[k].a)
         ELSE upd.o[k]])

\* the latest action is an update: it has an update value and no remove: true
LastUpdates ==
  LastQueried /\ LastAction.remove # Bool(TRUE) /\ LastAction.update # Undefined

\* C5: after an update action with an object value, every matched node that
\* was an object is the deep merge of what it was with the update value.
C5_ObjectUpdateMerges ==
  (LastUpdates /\ LastAction.update.t = "obj") =>
     \A n \in 1..Len(LastMatches) :
        GetPath(prev, LastMatches[n]).t = "obj" =>
           GetPath(Working, LastMatches[n])
              = MergeOf(GetPath(prev, LastMatches[n]), LastAction.update)

\* C6: after an update action, every matched node that was an array is that
\* array with the update value appended as one last element.
C6_ArrayUpdateAppends ==
  LastUpdates =>
     \A n \in 1..Len(LastMatches) :
        IsArray(GetPath(prev, LastMatches[n])) =>
           GetPath(Working, LastMatches[n])
              = Arr(Append(GetPath(prev, LastMatches[n]).a, LastAction.update))

\* the members of the parent of the node at `at` other than that node
Siblings(doc, at) ==
  LET parentAt == SubSeq(at, 1, Len(at) - 1)
      kids == Children(GetPath(doc, parentAt))
  IN { Append(parentAt, kids[n]) : n \in 1..Len(kids) } \ { at }

\* C7: after an update action, every matched node that was a scalar holds
\* the update value, and the other members of its parent are as they were.
C7_ScalarUpdateReplaces ==
  LastUpdates =>
     \A n \in 1..Len(LastMatches) :
        IsScalar(GetPath(prev, LastMatches[n])) =>
           /\ GetPath(Working, LastMatches[n]) = LastAction.update
           /\ \A sib \in Siblings(prev, LastMatches[n]) :
                 (\A j \in 1..Len(LastMatches) : LastMatches[j] # sib) =>
                    GetPath(Working, sib) = GetPath(prev, sib)

RECURSIVE NodesBelow(_, _)
\* the locations of the node at `at` and of all its descendants
NodesBelow(doc, at) ==
  LET kids == Children(GetPath(doc, at))
  IN { at } \cup UNION { NodesBelow(doc, Append(at, kids[n])) : n \in 1..Len(kids) }

\* C8: an action changes only the subtrees of the nodes its target matches:
\* a node that is neither a matched node, nor below one, nor above one, is
\* after the action what it was before.
C8_OnlyMatchedSubtreesChange ==
  LastQueried =>
     \A at \in NodesBelow(prev, <<>>) :
        (\A n \in 1..Len(LastMatches) :
            ~IsPrefix(LastMatches[n], at) /\ ~IsPrefix(at, LastMatches[n])) =>
           GetPath(Working, at) = GetPath(prev, at)

\* C9: an exception raised while one action is evaluated or applied does not
\* leave apply: the working document is what it was before that action, apply
\* throws only for an overlay without version, without actions or with an
\* action without target, and it returns only after the loop passed every
\* action.
C9_ActionErrorIsNoOp ==
  /\ (Ran /\ (i - 1) \in caught) => Working = prev
  /\ (pc = "thrown" /\ error = "action missing target") =>
        ~overlay.actions.a[i].hasTarget
  /\ (caught # {} /\ pc = "thrown") => error = "action missing target"
  /\ pc = "done" => i = Len(overlay.actions.a) + 1

\* apply returned after the first of two actions raised an exception and the
\* second changed the document
C9_Witness ==
  /\ pc = "done"
  /\ Len(overlay.actions.a) = 2
  /\ caught = {1}
  /\ Working # target0

\* C10: an overlay that has its version but lacks the actions array or the
\* info object makes apply reject with a validation error before the target
\* is cloned or any action applied.
C10_InvalidOverlayRejectedFirst ==
  (overlay.overlay # Undefined
     /\ (overlay.actions = Undefined \/ overlay.info = Undefined)) =>
     /\ workingDoc = "none"
     /\ i = 1
     /\ pc # "done"
     /\ target = target0
     /\ pc = "thrown" => error = "invalid overlay"

\* C11: an overlay one of whose actions lacks a target is rejected before any
\* of its actions is applied: apply never passes an action of such an overlay
\* to applyAction with success, so the loop stays at its first action and the
\* working document, if there is one, is the target's value.
C11_MissingTargetRejectsWhole ==
  ( /\ overlay.overlay # Undefined
    /\ overlay.actions # Undefined
    /\ \E n \in 1..Len(overlay.actions.a) : ~overlay.actions.a[n].hasTarget ) =>
     /\ i = 1
     /\ pc # "done"
     /\ workingDoc # "none" => Working = target0

\* C12: sequential composition: apply(apply(T, A), B) returns what
\* apply(T, C) returns, C being one overlay with A's actions followed by B's;
\* and when apply(T, A) throws, so does apply(T, C).
C12_SequentialComposition ==
  "combined" \in DOMAIN results =>
     IF results["first"].thrown
       THEN results["combined"].thrown
       ELSE results["combined"] = results["then"]

\* both ways returned a document that neither overlay alone produces from T
C12_Witness ==
  /\ "combined" \in DOMAIN results
  /\ "then" \in DOMAIN results
  /\ ~results["combined"].thrown
  /\ results["then"].doc # results["first"].doc
  /\ results["first"].doc # callerTarget0
  /\ overlayB.actions.a # << >>
  /\ applyAction(callerTarget0, overlayB.actions.a[1]).doc = callerTarget0

\* C13: calling apply(T, O) twice in succession with the same objects gives
\* the same outcome both times, and a document returned is O's actions
\* applied once, in order, to what T held before the first call.
C13_RepeatedApplyDeterministic ==
  "again" \in DOMAIN results =>
     /\ results["again"] = results["first"]
     /\ ~results["first"].thrown =>
           results["first"].doc
              = ApplySeq(callerTarget0, overlayA.actions.a,
                         Len(overlayA.actions.a))

\* the overlay changes the document, and would change it again if it were
\* applied to its own result
C13_Witness ==
  /\ "again" \in DOMAIN results
  /\ ~results["again"].thrown
  /\ results["again"].doc # callerTarget0
  /\ ApplySeq(results["again"].doc, overlayA.actions.a, Len(overlayA.actions.a))
        # results["again"].doc

\* the keys of `over` laid over the keys of `base`, one level deep
ShallowMerge(base, over) ==
  Obj([k \in DOMAIN base.o \cup DOMAIN over.o |->
         IF k \in DOMAIN over.o THEN over.o[k] ELSE base.o[k]])

\* C14: a legacy overlay, one without the version field and with an info
\* key, is accepted by apply: apply does not throw, and the document it
\* returns has the overlay's info keys laid over the target's info keys.
C14_LegacyOverlayAccepted ==
  (overlay # Undefined /\ overlay.overlay = Undefined /\ overlay.info # Undefined) =>
     /\ pc # "thrown"
     /\ pc = "done" =>
           Member(Working, Key("info"))
              = ShallowMerge(Member(target0, Key("info")), overlay.info)

\* the parameters of get under /p
GetParams(doc) ==
  GetPath(doc, << Key("paths"), Key("/p"), Key("get"), Key("parameters") >>)

SameIdentity(p, q) ==
  /\ Member(p, Key("name")) = Member(q, Key("name"))
  /\ Member(p, Key("in")) = Member(q, Key("in"))

\* C15: in the legacy merge an overlay parameter is merged into the base
\* parameter of the same (name, in), base-only fields kept and the overlay's
\* value taken on conflict, or appended when the base has none; and every
\* base parameter the overlay does not name is in the result unchanged.
C15_LegacyParametersByIdentity ==
  ( /\ legacyPc \in { "done", "thrown" }
    /\ IsArray(GetParams(baseSpec))
    /\ IsArray(GetParams(legacyOverlay)) ) =>
     /\ legacyPc = "done"
     /\ LET bp == GetParams(baseSpec).a
            op == GetParams(legacyOverlay).a
            rp == GetParams(legacyResult).a
            In(x, list) == \E n \in 1..Len(list) : list[n] = x
        IN /\ \A n \in 1..Len(bp) :
                 (\A m \in 1..Len(op) : ~SameIdentity(bp[n], op[m])) =>
                    In(bp[n], rp)
           /\ \A m \in 1..Len(op) :
                 \A n \in 1..Len(bp) :
                    ( /\ SameIdentity(bp[n], op[m])
                      /\ \A n2 \in 1..Len(bp) : SameIdentity(bp[n2], op[m]) => n2 = n
                      /\ \A m2 \in 1..Len(op) : SameIdentity(op[m2], op[m]) => m2 = m ) =>
                       In(Spread(bp[n], op[m]), rp)
           /\ \A m \in 1..Len(op) :
                 ( /\ \A n \in 1..Len(bp) : ~SameIdentity(bp[n], op[m])
                   /\ \A m2 \in 1..Len(op) : SameIdentity(op[m2], op[m]) => m2 = m ) =>
                    In(op[m], rp)

\* a formal overlay whose version is a string, whose info has title and
\* version, and whose actions are an array
FormalHeaderOk(ov) ==
  /\ ov # Null
  /\ ov.overlay.t = "str" /\ ov.overlay.s # ""
  /\ ov.info.t = "obj"
  /\ Truthy(Member(ov.info, Key("title")))
  /\ Truthy(Member(ov.info, Key("version")))
  /\ IsArray(ov.actions)

NoTarget(action) == ~action.hasTarget

NoDirective(action) == action.update = Undefined /\ action.remove = Undefined

RemoveNotBoolean(action) ==
  action.remove # Undefined /\ action.remove.t # "bool"

\* C16: validation rejects a formal overlay as soon as one of its actions has
\* no target, has neither update nor remove, or has a remove that is not a
\* boolean; and a formal overlay with a string version, info.title,
\* info.version and an actions array none of whose actions does so is
\* accepted.
C16_ActionChecks ==
  (validation # "pending" /\ FormalHeaderOk(validated)) =>
     ( validation = "valid"
         <=> \A n \in 1..Len(validated.actions.a) :
                LET action == validated.actions.a[n]
                IN ~NoTarget(action) /\ ~NoDirective(action)
                      /\ ~RemoveNotBoolean(action) )

\* an overlay rejected for its second action, the first one being in order
C16_Witness ==
  /\ validation = "Action remove property must be a boolean"
  /\ FormalHeaderOk(validated)
  /\ Len(validated.actions.a) = 2
  /\ validated.actions.a[1].remove = Bool(FALSE)
  /\ validated.actions.a[1].update = Undefined

\* an update value or remove: true
Meaningful(action) ==
  { d \in { "update", "remove" } :
      \/ d = "update" /\ action.update # Undefined
      \/ d = "remove" /\ action.remove = Bool(TRUE) }

\* C17 as stated: an action passes validation only if exactly one of the two
\* directives is meaningfully present; an action with both an update and
\* remove: true, and an action with neither, are rejected.
C17_ExactlyOneDirective ==
  (validation = "valid" /\ FormalHeaderOk(validated)) =>
     \A n \in 1..Len(validated.actions.a) :
        Cardinality(Meaningful(validated.actions.a[n])) = 1

\* C17 amended: an action passes validation only if at least one of update
\* and remove is present; an action with neither is rejected, and an action
\* with both an update and remove: true is accepted.
C17_AtLeastOneDirective ==
  (validation # "pending" /\ FormalHeaderOk(validated)) =>
     /\ validation = "valid" =>
           \A n \in 1..Len(validated.actions.a) :
              ~NoDirective(validated.actions.a[n])
     /\ (\A n \in 1..Len(validated.actions.a) :
            LET action == validated.actions.a[n]
            IN action.hasTarget /\ action.update # Undefined
                  /\ action.remove = Bool(TRUE)) =>
           validation = "valid"

\* an accepted overlay with an action that has both an update and
\* remove: true
C17_Witness ==
  /\ validation = "valid"
  /\ FormalHeaderOk(validated)
  /\ \E n \in 1..Len(validated.actions.a) :
        Cardinality(Meaningful(validated.actions.a[n])) = 2

\* what one turn of the loop of getProcessedOpenApi leaves in baseApi for an
\* overlay file: the document apply returns, or the document unchanged when
\* loading, validating or applying the overlay throws
OverlayTurn(doc, file) ==
  IF loadOverlay(file) # "" THEN doc
  ELSE IF file.overlay = Undefined THEN doc
  ELSE IF \E n \in 1..Len(file.actions.a) : NoTarget(file.actions.a[n]) THEN doc
  ELSE ApplySeq(doc, file.actions.a, Len(file.actions.a))

RECURSIVE Pipeline(_, _, _)
Pipeline(doc, files, n) ==
  IF n = 0 THEN doc
  ELSE OverlayTurn(Pipeline(doc, files, n - 1), files[n])

\* C18: getProcessedOpenApi applies the overlays one after another in the
\* order of config.overlayPaths: after the first overlayIndex - 1 entries
\* baseApi is the loaded document taken through these entries in order, an
\* apply in progress is that of the entry the loop is at and has this baseApi
\* as its target, and no entry further on has been touched.
C18_OverlaysSequentialInOrder ==
  gpc # "idle" =>
     /\ overlayIndex <= Len(overlayFiles) + 1
     /\ baseApi = Pipeline(loadedSpec, overlayFiles, overlayIndex - 1)
     /\ skipped \subseteq 1..(overlayIndex - 1)
     /\ gpc = "applying" =>
           /\ overlay = overlayFiles[overlayIndex]
           /\ target0 = baseApi
     /\ gpc # "applying" => pc = "idle"

\* two overlays were applied and the second one's action changed the document
\* only because of what the first one had put there
C18_Witness ==
  /\ gpc = "returned"
  /\ Len(overlayFiles) = 2
  /\ skipped = {}
  /\ OverlayTurn(loadedSpec, overlayFiles[2]) = loadedSpec
  /\ baseApi # OverlayTurn(loadedSpec, overlayFiles[1])
  /\ baseApi # loadedSpec

\* the operations of the document: the keys of its path items that name an
\* HTTP method and hold an object, as << position of the path, position of
\* the key >>
Operations ==
  { op \in UNION { { << p, m >> : m \in 1..Len(openapi.paths[p].items) } :
                   p \in 1..Len(openapi.paths) } :
      /\ toLowerCase[openapi.paths[op[1]].items[op[2]].key] \in HttpMethods
      /\ openapi.paths[op[1]].items[op[2]].isObject }

PathItemOf(op) == openapi.paths[op[1]]

OperationOf(op) == openapi.paths[op[1]].items[op[2]]

\* the positions in mappedTools of the tools made from an operation
ToolsOf(op) ==
  { k \in 1..Len(mappedTools) :
      /\ mappedTools[k].path = PathItemOf(op).path
      /\ mappedTools[k].method = toUpperCase[OperationOf(op).key] }

\* the operationId, when there is one, or 'METHOD:path' matches the pattern
GlobMatches(op, pattern) ==
  \/ /\ OperationOf(op).operationId # << >>
     /\ minimatch(OperationOf(op).operationId, pattern)
  \/ minimatch(urlPatternOf(PathItemOf(op).path, OperationOf(op).key), pattern)

\* C19: when mapOpenApiToMcpTools has returned, with a whitelist configured
\* an operation has a tool exactly when its operationId or its 'METHOD:path'
\* matches a whitelist pattern, whatever the blacklist holds; without a
\* whitelist it has a tool exactly when neither matches a blacklist pattern;
\* with neither list every operation has a tool.
C19_FilterDecidesTools ==
  mpc = "returned" =>
     \A op \in Operations :
        ToolsOf(op) # {} <=>
           IF ~whitelist.null
             THEN \E k \in 1..Len(whitelist.a) : GlobMatches(op, whitelist.a[k])
             ELSE ~\E k \in 1..Len(blacklist) : GlobMatches(op, blacklist[k])

\* C20: when mapOpenApiToMcpTools has returned, every operation the filter
\* lets through has exactly one tool; the tool's name is the operationId
\* unless an x-mcp extension names it, and for an operation without
\* operationId it is a name no other tool has.
C20_OneToolPerIncludedOperation ==
  mpc = "returned" =>
     \A op \in Operations :
        shouldIncludeOperation(OperationOf(op).operationId, PathItemOf(op).path,
                               OperationOf(op).key) =>
           /\ Cardinality(ToolsOf(op)) = 1
           /\ \A k \in ToolsOf(op) :
                 /\ mappedTools[k].name # << >>
                 /\ ( /\ OperationOf(op).operationId # << >>
                      /\ ~OperationOf(op).xmcp.isObject
                      /\ ~PathItemOf(op).xmcp.isObject )
                       => mappedTools[k].name = OperationOf(op).operationId
                 /\ OperationOf(op).operationId = << >> =>
                       \A j \in 1..Len(mappedTools) :
                          j # k => mappedTools[j].name # mappedTools[k].name

\* C25: remove takes precedence over update: after an action with remove:
\* true and an update value whose target matches, every matched node is gone
\* from its parent and nothing of the update value is in the document.
C25_RemoveBeatsUpdate ==
  ( /\ LastQueried
    /\ LastAction.remove = Bool(TRUE)
    /\ LastAction.update # Undefined
    /\ LastMatches # <<>> ) =>
     Working = DeleteAll(prev, LastMatches)

\* the latest action took one of the three branches of lines 141-182
TookSpecialBranch ==
  /\ LastQueried
  /\ LastMatches # <<>>
  /\ IsObjectUpdate(LastAction.update)
  /\ \/ IsInfoExpr(LastAction.target)
     \/ IsPathsGetExpr(LastAction.target) /\ HasPathMatch(LastAction.target)
     \/ IncludesParamFilter(LastAction.target) /\ HasPathMatch(LastAction.target)

\* C27: the three special branches are equivalent to the loop over the
\* matches: after an update action that took one of them, the document is
\* the one the loop of lines 185-234 gives for the same matches.
C27_SpecialBranchesAsGenericLoop ==
  TookSpecialBranch =>
     Working = ProcessMatches(prev, prev, LastMatches, LastAction).doc

\* the top-level keys of a document
TopKeys(doc) == IF doc.t = "obj" THEN DOMAIN doc.o ELSE {}

\* C30: after an update action whose target is the root '$' with an object
\* value, the document is the deep merge of the whole document with the
\* value; and after a remove or update on the root the document has the
\* top-level keys that merge prescribes.
C30_RootUpdateMergesDocument ==
  ( /\ LastQueried
    /\ LastAction.target = RootX
    /\ LastAction.update # Undefined
    /\ LastAction.update.t = "obj" ) =>
     /\ LastAction.remove # Bool(TRUE) =>
           Working = MergeOf(prev, LastAction.update)
     /\ TopKeys(Working) = TopKeys(MergeOf(prev, LastAction.update))

RECURSIVE CarriedForward(_)
\* the loaded document taken through the first n overlays, those at the
\* positions in `skipped` left out
CarriedForward(n) ==
  IF n = 0 THEN loadedSpec
  ELSE IF n \in skipped THEN CarriedForward(n - 1)
  ELSE ApplySeq(CarriedForward(n - 1), overlayFiles[n].actions.a,
                Len(overlayFiles[n].actions.a))

\* C26: in getProcessedOpenApi a failing overlay is skipped and not fatal:
\* when apply has thrown, the object baseApi refers to holds what it held
\* before the call; the document carried forward is the loaded document with
\* the overlays that did not fail applied in order and nothing of the ones
\* that failed; the loop ends only after the last overlay; and the only
\* rejection is that of the servers check after the loop.
C26_FailingOverlaySkipped ==
  gpc # "idle" =>
     /\ (gpc = "applying" /\ pc = "thrown") => target = baseApi
     /\ baseApi = CarriedForward(overlayIndex - 1)
     /\ gpc \in { "returned", "threw" } => overlayIndex = Len(overlayFiles) + 1
     /\ gpc = "threw" => ~targetApiBaseUrl /\ NoServers(baseApi)

\* the first overlay passed validation and made apply throw, and the second
\* one was applied to the loaded document and changed it
C26_Witness ==
  /\ gpc = "returned"
  /\ Len(overlayFiles) = 2
  /\ skipped = { 1 }
  /\ loadOverlay(overlayFiles[1]) = ""
  /\ baseApi # loadedSpec

\* the name the priority operation x-mcp, path x-mcp, operationId gives
NameByPriority(op) ==
  IF OperationOf(op).xmcp.name # << >> THEN OperationOf(op).xmcp.name
  ELSE IF PathItemOf(op).xmcp.name # << >> THEN PathItemOf(op).xmcp.name
  ELSE OperationOf(op).operationId

\* the description the priority operation x-mcp, path x-mcp, operation
\* description, operation summary, path summary, default gives
DescriptionByPriority(op) ==
  IF OperationOf(op).xmcp.description # "" THEN OperationOf(op).xmcp.description
  ELSE IF PathItemOf(op).xmcp.description # "" THEN PathItemOf(op).xmcp.description
  ELSE IF OperationOf(op).description # "" THEN OperationOf(op).description
  ELSE IF OperationOf(op).summary # "" THEN OperationOf(op).summary
  ELSE IF PathItemOf(op).summary # "" THEN PathItemOf(op).summary
  ELSE "No description available."

\* C21: when mapOpenApiToMcpTools has returned, the name and the description
\* of every tool follow, each on its own, the priority operation-level x-mcp
\* value, path-level x-mcp value, default.
C21_XMcpPriority ==
  mpc = "returned" =>
     \A op \in Operations :
        \A k \in ToolsOf(op) :
           /\ mappedTools[k].name = NameByPriority(op)
           /\ mappedTools[k].description = DescriptionByPriority(op)

\* the request rc with the schemes named in names applied in order
RECURSIVE WithSchemes(_, _)
WithSchemes(rc, names) ==
  IF names = << >> THEN rc
  ELSE WithSchemes(applyScheme(rc, Head(names)).requestConfig, Tail(names))

\* every scheme of the requirement can be satisfied
Satisfiable(requirement) ==
  \A j \in 1..Len(requirement) : applyScheme(requestConfig0, requirement[j]).satisfied

\* the requirements applySecurity has to choose from
Choosable ==
  IF securityRequirements.null \/ ~securitySchemes.defined THEN { }
  ELSE { j \in 1..Len(securityRequirements.a) : Satisfiable(securityRequirements.a[j]) }

\* C29: when applySecurity returns, the request is the one it was given with
\* the credentials of the first requirement all of whose schemes can be
\* satisfied, and nothing else: unchanged when there is no such requirement.
C29_OnlyFirstSatisfiableRequirement ==
  spc = "returned" =>
     requestConfig =
       IF Choosable = { } THEN requestConfig0
       ELSE LET first == CHOOSE j \in Choosable : \A k \in Choosable : j <= k
            IN  WithSchemes(requestConfig0, securityRequirements.a[first])

\* the parameter definitions of the call, as a set
DetailedParams == { details.parameters[j] : j \in 1..Len(details.parameters) }

\* the input of the call is invalid in one of the ways executeApiCall rejects
InvalidInput ==
  \/ details.method = ""
  \/ details.pathTemplate = << >>
  \/ details.serverUrl = ""
  \/ mcpInput.t # "obj"
  \/ \E paramDef \in DetailedParams :
       LET given == Member(mcpInput, Key(paramDef.name))
       IN  \/ given # Undefined /\ validateParameterValue(given, paramDef)
           \/ given = Undefined /\ paramDef.required
  \/ /\ details.requestBody.defined
     /\ details.requestBody.required
     /\ Member(mcpInput, Key("requestBody")) = Undefined

C23_XMcpAndCustomHeadersOnEveryRequest ==
  \A j \in 1..Len(requests) :
    LET sent == requests[j].headers IN
    /\ ~disableXMcp => "X-MCP" \in DOMAIN sent /\ sent["X-MCP"] = << "1" >>
    /\ \A h \in DOMAIN customHeaders : h \in DOMAIN sent /\ sent[h] = customHeaders[h]
    /\ disableXMcp =>
         \/ "X-MCP" \notin DOMAIN sent
         \/ sent["X-MCP"] # << "1" >>

\* the value the documented precedence gives: command line, then
\* environment, then configuration file, then the default
ByPrecedence(cli, env, file, default) ==
  IF cli.set THEN cli.v
  ELSE IF env.set THEN env.v
  ELSE IF file.set THEN file.v
  ELSE default

\* the environment's value of a setting, converted to the setting's type
EnvPort ==
  IF processEnv.MCP_SERVER_PORT.set
  THEN Some(parseInt(processEnv.MCP_SERVER_PORT.v)) ELSE NoNumber

EnvDisableXMcp ==
  IF processEnv.DISABLE_X_MCP.set
  THEN Some(processEnv.DISABLE_X_MCP.v = "true") ELSE NoBoolean

Parsed(text) == IF text.set THEN Some(JSONParse(text.v)) ELSE text

\* C24: every setting of the loaded configuration has the command-line
\* value if one is given, else the environment's, else the configuration
\* file's, else the default.
C24_ConfigurationPrecedence ==
  cpc \notin { "idle", "start" } =>
     /\ config.targetApiBaseUrl =
          ByPrecedence(argv.targetUrl, processEnv.TARGET_API_BASE_URL,
                       jsonConfig.targetUrl, "")
     /\ config.mcpPort = ByPrecedence(argv.port, EnvPort, jsonConfig.port, 8080)
     /\ config.disableXMcp =
          ByPrecedence(argv.disableXMcp, EnvDisableXMcp, jsonConfig.disableXMcp, FALSE)
     /\ config.securityCredentials =
          ByPrecedence(Parsed(argv.securityCredentials),
                       Parsed(processEnv.SECURITY_CREDENTIALS),
                       jsonConfig.securityCredentials, << >>)

\* the objects of the call at hand once the loop has taken its turns
HeapNow == HeapAfter(target0, overlay.actions.a, i - 1)

====
